---- MODULE Spec2Model ----
(***************************************************************************)
(* Kevin-Calendar: the voice session controller of src/App.tsx (toggleAi,  *)
(* startWaitingMode, startActiveMode, stopAllAi and the callbacks they     *)
(* install) and the application data (projects, calendar, selection) with  *)
(* the tool-call executor of src/App.tsx and of src/unnamed/part_008 and   *)
(* the UI edit handlers.                                                   *)
(*                                                                         *)
(* Spec      the controller: every handler, callback and timer is one      *)
(*           action; the data variables do not change.                     *)
(* SpecTimed the controller with the clock of the silence supervisor.      *)
(* SpecData  the application data while a session is open: tool-call       *)
(*           messages and UI edits, each followed by its render effects.   *)
(* SpecData8 the same with the executor of src/unnamed/part_008.           *)
(* SpecDataAny  either executor, on the stored data or on no data.         *)
(* SpecRace  SpecData with messages and imports that are handled before    *)
(*           the effects of the previous commit have run.                  *)
(* SpecListener  the controller without the clock, the audio and the       *)
(*           playback, with two wake-word recognizers alive at once.       *)
(* SpecWake  the voice controller of src/unnamed/part_008.                 *)
(* SpecBlob  createBlob applied to the buffers of captured audio.          *)
(***************************************************************************)
EXTENDS Integers, Sequences, FiniteSets, TLC

VARIABLES
    aiMode,            \* React state aiMode (App.tsx:207)
    aiModeRef,         \* aiModeRef.current (App.tsx:208)
    hasSR,             \* window.SpeechRecognition || webkitSpeechRecognition exists
    recognitionRef,    \* recognitionRef.current: 0 = null, else a recognizer
    recs,              \* the SpeechRecognition objects created by startWaitingMode
    sessionRef,        \* sessionRef.current: 0 = null, else a session promise
    sess,              \* the live sessions created by ai.live.connect, with the
                       \* stream, the timers and the closures of their callbacks
    mediaStreamRef,    \* mediaStreamRef.current: 0 = null, else the stream of a session
    silenceTimerRef,   \* silenceTimerRef.current: 0 = null, s = the interval of
                       \* session s, Cleared = an interval clearInterval was called on
    inputContextRef,   \* inputContextRef.current is not null
    audioContextRef,   \* audioContextRef.current is not null
    pend,              \* startActiveMode invocations suspended at each await
    sources,           \* number of playing or scheduled sources in sourcesRef.current
    elapsed,           \* Date.now() - lastSpeechTimeRef.current, in ms
    nextStartTimeRef,  \* nextStartTimeRef.current (App.tsx:220), in time units
    currentTime,       \* audioContextRef.current.currentTime when last read
    chunk,             \* history: start and duration of the last source started
    userStopped,       \* history: the user's last toggle was a stop
    shouldRestartWaitingRef, \* shouldRestartWaitingRef.current (part_008:208)
    frame,             \* the Float32Array given to createBlob: each sample is
                       \* frame[i] / SampleUnit
    blob,              \* what createBlob returned for it
    data,              \* React state data (App.tsx:191)
    dataRef,           \* dataRef.current (App.tsx:211)
    expandedProjectId, \* React state expandedProjectId (App.tsx:194)
    expandedProjectIdRef, \* expandedProjectIdRef.current (App.tsx:212)
    nextId,            \* number of ids crypto.randomUUID() has produced
    build,             \* which App is running: "App" (src/App.tsx) or "P8" (part_008)
    effects,           \* the useEffect callbacks scheduled by the last renders
    ops,               \* number of tool-call messages and UI edits handled
    stored,            \* localStorage[STORAGE_KEY], as the data it parses to
    unseen             \* history: who made the commits (setData) that
                       \* dataRef.current does not hold yet, oldest first

ctlVars == <<aiMode, aiModeRef, hasSR, recognitionRef, recs, sessionRef, sess,
             mediaStreamRef, silenceTimerRef, inputContextRef, audioContextRef,
             pend, sources, elapsed, nextStartTimeRef, currentTime, chunk,
             userStopped, shouldRestartWaitingRef, frame, blob>>
dataVars == <<data, dataRef, expandedProjectId, expandedProjectIdRef, nextId,
              build, effects, ops, stored, unseen>>
vars == <<ctlVars, dataVars>>

(***************************************************************************)
(* Bounds                                                                  *)
(***************************************************************************)
MaxRec == 2        \* recognizer objects alive at once in SpecListener
MaxRecCtl == 1     \* recognizer objects alive at once in the other specifications
MaxSess == 1       \* session objects alive at once
MaxPend == 1       \* suspended startActiveMode invocations
MaxSources == 1    \* audio sources in flight
MaxTime == 3       \* the largest time nextStartTimeRef.current reaches
MaxFrame == 2      \* samples in the buffer given to createBlob

(***************************************************************************)
(* Program constants                                                       *)
(***************************************************************************)
SilenceThresholdMs == 10000
SupervisorPeriodMs == 1000
ElapsedCap == SilenceThresholdMs + 2 * SupervisorPeriodMs

AiModes == {"OFF", "WAITING", "ACTIVE"}

\* silenceTimerRef.current holds the handle of an interval that was cleared.
Cleared == -1

(***************************************************************************)
(* Strings: String.prototype.toLowerCase and String.prototype.includes on  *)
(* strings represented as sequences of one-character strings.              *)
(***************************************************************************)
Uppers == <<"A","B","C","D","E","F","G","H","I","J","K","L","M",
            "N","O","P","Q","R","S","T","U","V","W","X","Y","Z">>
Lowers == <<"a","b","c","d","e","f","g","h","i","j","k","l","m",
            "n","o","p","q","r","s","t","u","v","w","x","y","z">>

LowerChar(c) ==
    IF \E i \in 1..Len(Uppers) : Uppers[i] = c
    THEN Lowers[CHOOSE i \in 1..Len(Uppers) : Uppers[i] = c]
    ELSE c

toLowerCase(s) == [i \in 1..Len(s) |-> LowerChar(s[i])]

includes(s, t) ==
    \E k \in 0..(Len(s) - Len(t)) :
        \A i \in 1..Len(t) : s[k + i] = t[i]

Min(a, b) == IF a < b THEN a ELSE b

\* Math.max
Max(a, b) == IF a > b THEN a ELSE b

(***************************************************************************)
(* createBlob (App.tsx:30-49)                                              *)
(***************************************************************************)
\* A sample of the Float32Array is n / SampleUnit, for an integer n with
\* -SampleUnit <= n <= SampleUnit: the values from -1 to 1 in steps of
\* 2^-16, which Float32 and the product by 32768 represent exactly.
SampleUnit == 65536
Samples == {-65536, -65535, -32768, -3, -1, 0, 1, 3, 32768, 65535, 65536}
Frames == UNION {[1..n -> Samples] : n \in 1..MaxFrame}

\* No buffer has been encoded yet.
NoBlob == [data |-> <<>>, mimeType |-> ""]

\* The store of a Number into an Int16Array element (ToInt16): the value is
\* truncated towards zero and taken modulo 2^16 into -2^15 .. 2^15 - 1.  The
\* Number is num / den, with den > 0.
ToInt16(num, den) ==
    LET int == IF num >= 0 THEN num \div den ELSE -((-num) \div den)
        int16bit == int % 65536
    IN  IF int16bit >= 32768 THEN int16bit - 65536 ELSE int16bit

\* for (i ...) int16[i] = data[i] * 32768: the product of the sample
\* buf[i] / SampleUnit by 32768 is the Number buf[i] / (SampleUnit / 32768).
int16Of(buf) ==
    [i \in 1..Len(buf) |-> ToInt16(buf[i], SampleUnit \div 32768)]

\* new Uint8Array(int16.buffer): the two bytes of each element, the low
\* byte first (the platforms the browser runs on are little-endian).
bytesOf(int16) ==
    [k \in 1..(2 * Len(int16)) |->
        LET u == int16[(k + 1) \div 2] % 65536
        IN  IF k % 2 = 1 THEN u % 256 ELSE u \div 256]

\* The character '=' of a base64 text; the other characters are written as
\* their index 0..63 in the base64 alphabet.
Pad == 64

\* btoa of the string whose char codes are bytes
btoa(bytes) ==
    LET n == Len(bytes)
        at(k) == IF k <= n THEN bytes[k] ELSE 0
    IN  [p \in 1..(4 * ((n + 2) \div 3)) |->
            LET g == (p - 1) \div 4
                x == at(3 * g + 1) * 65536 + at(3 * g + 2) * 256 + at(3 * g + 3)
                idx == (p - 1) % 4
            IN  CASE idx = 0 -> x \div 262144
                  [] idx = 1 -> (x \div 4096) % 64
                  [] idx = 2 -> IF 3 * g + 2 > n THEN Pad ELSE (x \div 64) % 64
                  [] idx = 3 -> IF 3 * g + 3 > n THEN Pad ELSE x % 64]

createBlob(buf) ==
    [data |-> btoa(bytesOf(int16Of(buf))), mimeType |-> "audio/pcm;rate=16000"]

(***************************************************************************)
(* Controller objects                                                      *)
(***************************************************************************)
\* A SpeechRecognition object: st is "new" (created, not started), "started",
\* "stopping" (abort() called, its end event not yet delivered), "denied"
\* (the error event not-allowed delivered, its end event not yet) or "ended";
\* onend: the handler of App.tsx:332 is attached; retry: the timer of
\* App.tsx:345 is pending.  "free" marks an unused slot.
FreeRec == [st |-> "free", onend |-> FALSE, retry |-> FALSE]

\* A slot the specification does not use.
NoRec == [st |-> "none", onend |-> FALSE, retry |-> FALSE]

\* A session created by ai.live.connect (App.tsx:374) with what its callbacks
\* close over.  st: "connecting", "open", "erroring" (onerror delivered, the
\* close event still to come), "closed", "rejected" (the connect promise
\* rejected).  closeReq: s.close() has been requested through the promise.
\* grace: the endSession timer (App.tsx:439) is pending.  interval: the
\* silence interval (App.tsx:397) is running.  stream: the tracks of the
\* MediaStream obtained for this session are live.  proc: the script
\* processor of onopen is installed and its AudioContext is not closed, so
\* that onaudioprocess (App.tsx:409-420) fires.  restart: the timer of onclose
\* (App.tsx:520) is pending.  ended: endSession was called on this session.
\* closeReq is kept only while the session can still be closed.
FreeSess == [st |-> "free", closeReq |-> FALSE, grace |-> FALSE,
             interval |-> FALSE, stream |-> FALSE, proc |-> FALSE,
             restart |-> FALSE, ended |-> FALSE]

RecIds == 1..MaxRec

\* No recognizer exists, and n can exist at once.
NoRecs(n) == [i \in RecIds |-> IF i <= n THEN FreeRec ELSE NoRec]
SessIds == 1..MaxSess

\* buf.duration of the audio messages, in time units
Durations == {1, 2}

\* No source has been started yet.
NoChunk == [start |-> 0, dur |-> 0]

\* The controller state as one record, so that the functions of App.tsx
\* compose as they call each other.
Cur == [aiMode |-> aiMode, aiModeRef |-> aiModeRef,
        recognitionRef |-> recognitionRef, recs |-> recs,
        sessionRef |-> sessionRef, sess |-> sess,
        mediaStreamRef |-> mediaStreamRef, silenceTimerRef |-> silenceTimerRef,
        inputContextRef |-> inputContextRef, audioContextRef |-> audioContextRef,
        pend |-> pend, sources |-> sources, elapsed |-> elapsed,
        nextStartTimeRef |-> nextStartTimeRef, currentTime |-> currentTime,
        chunk |-> chunk, overflow |-> FALSE]

PendTotal(p) == p.resumeIn + p.resumeOut + p.mic

\* SpeechRecognition.abort(): a started recognizer stops and delivers its end
\* event later; otherwise nothing happens.
abort(r) == IF r.st = "started" THEN [r EXCEPT !.st = "stopping"] ELSE r

\* SpeechRecognition.start() throws InvalidStateError on a recognizer that is
\* started (its end event not yet delivered), or when the engine refuses.
startFails(r, throws) == r.st \in {"started", "stopping", "denied"} \/ throws

\* try { recognition.start() } catch (e) {}
tryStart(r, throws) ==
    IF startFails(r, throws) THEN r ELSE [r EXCEPT !.st = "started"]

\* sessionPromise.then(s => s.close()): runs once the promise has resolved.
closeSession(s) ==
    IF s.st \in {"connecting", "open"} THEN [s EXCEPT !.closeReq = TRUE] ELSE s

\* Objects nothing refers to any more and that no pending callback can reach.
GarbageRec(r, i, ref) ==
    /\ i # ref /\ ~r.retry
    /\ \/ r.st \in {"new", "ended"}
       \/ r.st \in {"stopping", "denied"} /\ ~r.onend
GarbageSess(s, i, sref, mref) ==
    /\ i # sref /\ i # mref
    /\ s.st \in {"closed", "rejected"}
    /\ ~s.grace /\ ~s.interval /\ ~s.stream /\ ~s.restart

Collect(C) ==
    [C EXCEPT
       !.recs = [i \in RecIds |->
                   IF GarbageRec(C.recs[i], i, C.recognitionRef)
                   THEN FreeRec ELSE C.recs[i]],
       !.sess = [i \in SessIds |->
                   IF GarbageSess(C.sess[i], i, C.sessionRef, C.mediaStreamRef)
                   THEN FreeSess ELSE C.sess[i]]]

FreeRecSlot(C) ==
    IF \E i \in RecIds : C.recs[i].st = "free"
    THEN CHOOSE i \in RecIds :
            C.recs[i].st = "free" /\ \A j \in RecIds : C.recs[j].st = "free" => i <= j
    ELSE 0

FreeSessSlot(C) ==
    IF \E i \in SessIds : C.sess[i].st = "free"
    THEN CHOOSE i \in SessIds :
            C.sess[i].st = "free" /\ \A j \in SessIds : C.sess[j].st = "free" => i <= j
    ELSE 0

(***************************************************************************)
(* stopAllAi (App.tsx:254-292)                                             *)
(***************************************************************************)
stopAllAi(C) ==
    LET r == C.recognitionRef
        s == C.sessionRef
        m == C.mediaStreamRef
        t == C.silenceTimerRef
        recs1 == IF r # 0
                 THEN [C.recs EXCEPT ![r] = abort([@ EXCEPT !.onend = FALSE])]
                 ELSE C.recs
        sess1 == IF s # 0 THEN [C.sess EXCEPT ![s] = closeSession(@)] ELSE C.sess
        sess2 == IF m # 0 THEN [sess1 EXCEPT ![m].stream = FALSE] ELSE sess1
        sess3 == IF t \in SessIds THEN [sess2 EXCEPT ![t].interval = FALSE] ELSE sess2
        sess4 == IF C.inputContextRef
                 THEN [i \in SessIds |-> [sess3[i] EXCEPT !.proc = FALSE]]
                 ELSE sess3
    IN  [C EXCEPT !.recs = recs1, !.recognitionRef = 0,
                  !.sess = sess4, !.sessionRef = 0,
                  !.mediaStreamRef = 0,
                  !.audioContextRef = FALSE,
                  !.inputContextRef = FALSE,
                  !.silenceTimerRef = 0,
                  !.sources = 0,
                  !.aiModeRef = "OFF", !.aiMode = "OFF"]

(***************************************************************************)
(* startWaitingMode (App.tsx:294-349).  throws: the first                  *)
(* recognition.start() throws.                                             *)
(***************************************************************************)
startWaitingMode(C, throws) ==
    LET r == C.recognitionRef
        s == C.sessionRef
        m == C.mediaStreamRef
        t == C.silenceTimerRef
        recs1 == IF r # 0 THEN [C.recs EXCEPT ![r] = abort(@)] ELSE C.recs
        sess1 == IF s # 0 THEN [C.sess EXCEPT ![s] = closeSession(@)] ELSE C.sess
        sess2 == IF m # 0 THEN [sess1 EXCEPT ![m].stream = FALSE] ELSE sess1
        sess3 == IF t \in SessIds THEN [sess2 EXCEPT ![t].interval = FALSE] ELSE sess2
        C1 == Collect([C EXCEPT !.recs = recs1, !.recognitionRef = 0,
                                !.sess = sess3, !.sessionRef = 0,
                                !.mediaStreamRef = 0,
                                !.silenceTimerRef = IF t = 0 THEN 0 ELSE Cleared,
                                !.aiModeRef = "WAITING", !.aiMode = "WAITING"])
        n == FreeRecSlot(C1)
        fresh == [st |-> "new", onend |-> TRUE, retry |-> FALSE]
        started == IF startFails(fresh, throws)
                   THEN [fresh EXCEPT !.retry = TRUE]
                   ELSE [fresh EXCEPT !.st = "started"]
    IN  IF ~hasSR THEN stopAllAi(C1)
        ELSE IF n = 0 THEN [C1 EXCEPT !.overflow = TRUE]
        ELSE [C1 EXCEPT !.recs[n] = started, !.recognitionRef = n]

(***************************************************************************)
(* startActiveMode (App.tsx:351-537), an async function: the part up to    *)
(* its first await, then one continuation per await.                       *)
(***************************************************************************)
Suspend(C, at) ==
    IF PendTotal(C.pend) >= MaxPend THEN [C EXCEPT !.overflow = TRUE]
    ELSE [C EXCEPT !.pend[at] = @ + 1]

\* App.tsx:352-371: inSuspended / outSuspended are the states of the two new
\* AudioContexts; the clock of a new AudioContext starts at 0.
startActiveMode(C, inSuspended, outSuspended) ==
    LET C1 == [C EXCEPT !.aiModeRef = "ACTIVE", !.aiMode = "ACTIVE",
                        !.inputContextRef = TRUE, !.audioContextRef = TRUE,
                        !.currentTime = 0]
    IN  IF inSuspended THEN Suspend(C1, "resumeIn")
        ELSE IF outSuspended THEN Suspend(C1, "resumeOut")
        ELSE Suspend(C1, "mic")

\* App.tsx:533-536
catchConnFailed(C, throws) == startWaitingMode(C, throws)

\* App.tsx:364-371 after inputContextRef.current.resume() settled.  The read
\* of audioContextRef.current.state throws a TypeError when stopAllAi has
\* nulled the ref in the meantime.
afterResumeIn(C, ok, outSuspended, throws) ==
    LET C1 == [C EXCEPT !.pend.resumeIn = @ - 1]
    IN  IF ~ok \/ ~C1.audioContextRef THEN catchConnFailed(C1, throws)
        ELSE IF outSuspended THEN Suspend(C1, "resumeOut")
        ELSE Suspend(C1, "mic")

\* App.tsx:367-371 after audioContextRef.current.resume() settled:
\* audioContextRef.current.createGain() throws on a nulled ref.
afterResumeOut(C, ok, throws) ==
    LET C1 == [C EXCEPT !.pend.resumeOut = @ - 1]
    IN  IF ~ok \/ ~C1.audioContextRef THEN catchConnFailed(C1, throws)
        ELSE Suspend(C1, "mic")

\* App.tsx:371-531 after getUserMedia settled: the stream is stored, the
\* session is created and stored.
afterGetUserMedia(C, ok, throws) ==
    LET C1 == Collect([C EXCEPT !.pend.mic = @ - 1])
        n == FreeSessSlot(C1)
    IN  IF ~ok THEN catchConnFailed(C1, throws)
        ELSE IF n = 0 THEN [C1 EXCEPT !.overflow = TRUE]
        ELSE [C1 EXCEPT !.sess[n] = [FreeSess EXCEPT !.st = "connecting",
                                                     !.stream = TRUE],
                        !.mediaStreamRef = n,
                        !.sessionRef = n]

(***************************************************************************)
(* Callbacks of the recognizer (App.tsx:318-348)                           *)
(***************************************************************************)
WakePhrase == <<"h","e","y"," ","k","e","v","i","n">>

\* The transcripts a result event may carry.
Transcripts ==
    { <<"O","k"," ","H","e","y"," ","K","e","v","i","n","!">>,
      <<"h","e","y"," ","k","e","n">> }

ResultLists == {<<a>> : a \in Transcripts}
                 \cup {<<a, b>> : a \in Transcripts, b \in Transcripts}

hasWake(results) ==
    \E i \in 1..Len(results) : includes(toLowerCase(results[i]), WakePhrase)

\* recognition.onresult (App.tsx:318-330)
onresult(C, r, results, inSuspended, outSuspended) ==
    IF hasWake(results)
    THEN startActiveMode(
            [C EXCEPT !.recs[r] = abort([@ EXCEPT !.onend = FALSE]),
                      !.recognitionRef = 0],
            inSuspended, outSuspended)
    ELSE C

\* The end event of recognizer r, and recognition.onend (App.tsx:332-337).
onend(C, r, throws) ==
    LET e == [C.recs[r] EXCEPT !.st = "ended"]
    IN  IF e.onend /\ C.aiModeRef = "WAITING"
        THEN [C EXCEPT !.recs[r] = tryStart(e, throws)]
        ELSE [C EXCEPT !.recs[r] = e]

\* The retry timer (App.tsx:345-347)
retryStart(C, r, throws) ==
    LET e == [C.recs[r] EXCEPT !.retry = FALSE]
    IN  IF C.aiModeRef = "WAITING"
        THEN [C EXCEPT !.recs[r] = tryStart(e, throws)]
        ELSE [C EXCEPT !.recs[r] = e]

(***************************************************************************)
(* Callbacks and timers of a session (App.tsx:394-528)                     *)
(***************************************************************************)
\* callbacks.onopen (App.tsx:394-424): inputContextRef.current! is null
\* after stopAllAi, and then no processor is installed.
onopen(C, s) ==
    [C EXCEPT !.sess[s] = [@ EXCEPT !.st = "open", !.interval = TRUE,
                                    !.proc = C.inputContextRef],
              !.silenceTimerRef = s,
              !.elapsed = 0]

silenceExpiredLate(e) == e > SilenceThresholdMs + SupervisorPeriodMs

silenceExpired(e) == e > SilenceThresholdMs

\* The callback of the silence interval of session s (App.tsx:397-402),
\* run when Date.now() - lastSpeechTimeRef.current is e.
silenceCheck(C, s, e) ==
    IF silenceExpired(e) /\ C.sessionRef # 0
    THEN [C EXCEPT !.sess[s] = closeSession(@)]
    ELSE C

RECURSIVE silenceCheckAll(_, _, _)
silenceCheckAll(C, S, e) ==
    IF S = {} THEN C
    ELSE LET s == CHOOSE x \in S : TRUE
         IN  silenceCheckAll(silenceCheck(C, s, e), S \ {s}, e)

\* One period of the clock passes and every running interval fires once.
supervisorTick(C) ==
    LET e == Min(C.elapsed + SupervisorPeriodMs, ElapsedCap)
    IN  silenceCheckAll([C EXCEPT !.elapsed = e],
                        {s \in SessIds : C.sess[s].interval}, e)

\* processor.onaudioprocess with rms > 0.01 (App.tsx:409-417)
voicedFrame(C) == [C EXCEPT !.elapsed = 0]

\* The endSession branch of onmessage (App.tsx:436-441)
endSessionCall(C, s) ==
    [C EXCEPT !.sources = 0,
              !.sess[s] = [@ EXCEPT !.grace = TRUE, !.ended = TRUE]]

\* The timer of App.tsx:439-441
graceTimer(C, s) ==
    [C EXCEPT !.sess[s] = closeSession([@ EXCEPT !.grace = FALSE])]

\* onclose writing the mode itself instead of calling startWaitingMode.
oncloseSetsMode(C, s) ==
    [C EXCEPT !.sess[s] = [@ EXCEPT !.st = "closed", !.closeReq = FALSE],
              !.aiModeRef = IF @ = "ACTIVE" THEN "WAITING" ELSE @,
              !.aiMode = IF C.aiModeRef = "ACTIVE" THEN "WAITING" ELSE @]

\* callbacks.onclose (App.tsx:515-524)
onclose(C, s) ==
    [C EXCEPT !.sess[s] = [@ EXCEPT !.st = "closed", !.closeReq = FALSE,
                                    !.restart = (C.aiModeRef = "ACTIVE")]]

\* The timer of App.tsx:520-522
restartTimer(C, s, throws) ==
    startWaitingMode([C EXCEPT !.sess[s].restart = FALSE], throws)

\* callbacks.onerror (App.tsx:525-528)
onerror(C, s, throws) ==
    LET C1 == [C EXCEPT !.sess[s] = [@ EXCEPT !.st = "erroring",
                                              !.closeReq = FALSE]]
    IN  IF C.aiModeRef = "ACTIVE" THEN startWaitingMode(C1, throws) ELSE C1

\* toggleAi (App.tsx:539-545)
toggleAi(C, throws) ==
    IF C.aiMode = "OFF" THEN startWaitingMode(C, throws) ELSE stopAllAi(C)


(***************************************************************************)
(* The controller's actions: one per handler, callback or timer            *)
(***************************************************************************)
SetCtl(C) ==
    /\ ~C.overflow
    /\ LET N == Collect(C)
       IN  /\ aiMode' = N.aiMode
           /\ aiModeRef' = N.aiModeRef
           /\ recognitionRef' = N.recognitionRef
           /\ recs' = N.recs
           /\ sessionRef' = N.sessionRef
           /\ sess' = N.sess
           /\ mediaStreamRef' = N.mediaStreamRef
           /\ silenceTimerRef' = N.silenceTimerRef
           /\ inputContextRef' = N.inputContextRef
           /\ audioContextRef' = N.audioContextRef
           /\ pend' = N.pend
           /\ sources' = N.sources
           /\ elapsed' = N.elapsed
           /\ nextStartTimeRef' = N.nextStartTimeRef
           /\ currentTime' = N.currentTime
           /\ chunk' = N.chunk
    /\ hasSR' = hasSR
    /\ shouldRestartWaitingRef' = shouldRestartWaitingRef
    /\ UNCHANGED <<frame, blob>>

Set(C) == SetCtl(C) /\ UNCHANGED dataVars

\* An event other than the user's toggle.
Settle == userStopped' = userStopped

\* The user clicks the button (App.tsx:745).
ToggleAi ==
    \E throws \in BOOLEAN :
        /\ Set(toggleAi(Cur, throws))
        /\ userStopped' = (aiMode # "OFF")

\* A result event of a started recognizer.
OnResult ==
    \E r \in RecIds, results \in ResultLists :
        /\ recs[r].st = "started"
        /\ \E i \in (IF hasWake(results) THEN BOOLEAN ELSE {FALSE}),
              o \in (IF hasWake(results) THEN BOOLEAN ELSE {FALSE}) :
                Set(onresult(Cur, r, results, i, o))
        /\ Settle

\* The error event not-allowed of a started recognizer: the microphone is
\* denied.  startWaitingMode assigns no recognition.onerror (App.tsx:313-337),
\* so no code of the program runs; the recognizer ends.
recognitionError(C, r) == [C EXCEPT !.recs[r].st = "denied"]

OnError ==
    \E r \in RecIds :
        /\ recs[r].st = "started"
        /\ Set(recognitionError(Cur, r))
        /\ Settle

\* The end event of a recognizer: after abort(), after an error, or
\* spontaneously.
OnEnd ==
    \E r \in RecIds, throws \in BOOLEAN :
        /\ recs[r].st \in {"started", "stopping", "denied"}
        /\ Set(onend(Cur, r, throws))
        /\ Settle

RetryTimer ==
    \E r \in RecIds, throws \in BOOLEAN :
        /\ recs[r].retry
        /\ Set(retryStart(Cur, r, throws))
        /\ Settle

ResumeInSettled ==
    \E ok \in BOOLEAN, o \in BOOLEAN, throws \in BOOLEAN :
        /\ pend.resumeIn > 0
        /\ Set(afterResumeIn(Cur, ok, o, throws))
        /\ Settle

ResumeOutSettled ==
    \E ok \in BOOLEAN, throws \in BOOLEAN :
        /\ pend.resumeOut > 0
        /\ Set(afterResumeOut(Cur, ok, throws))
        /\ Settle

GetUserMediaSettled ==
    \E ok \in BOOLEAN, throws \in BOOLEAN :
        /\ pend.mic > 0
        /\ Set(afterGetUserMedia(Cur, ok, throws))
        /\ Settle

SessionOpen ==
    \E s \in SessIds :
        /\ sess[s].st = "connecting"
        /\ Set(onopen(Cur, s))
        /\ Settle

\* ai.live.connect's promise rejects: no callback runs, and nothing awaits
\* or catches the promise (App.tsx:374, 531).
ConnectReject ==
    \E s \in SessIds :
        /\ sess[s].st = "connecting"
        /\ Set([Cur EXCEPT !.sess[s] = [@ EXCEPT !.st = "rejected",
                                                !.closeReq = FALSE]])
        /\ Settle

SessionError ==
    \E s \in SessIds, throws \in BOOLEAN :
        /\ sess[s].st \in {"connecting", "open"}
        /\ Set(onerror(Cur, s, throws))
        /\ Settle

\* The connection closes: after s.close(), after an error, or remotely.
SessionClose ==
    \E s \in SessIds :
        /\ sess[s].st \in {"open", "erroring"}
        /\ Set(onclose(Cur, s))
        /\ Settle

RestartTimer ==
    \E s \in SessIds, throws \in BOOLEAN :
        /\ sess[s].restart
        /\ Set(restartTimer(Cur, s, throws))
        /\ Settle

\* A tool-call message that contains endSession arrives on an open session.
EndSessionCall ==
    \E s \in SessIds :
        /\ sess[s].st = "open"
        /\ Set(endSessionCall(Cur, s))
        /\ Settle

GraceTimer ==
    \E s \in SessIds :
        /\ sess[s].grace
        /\ Set(graceTimer(Cur, s))
        /\ Settle

\* The silence interval of a session fires; the time read from Date.now()
\* is an input (the boundary values of the comparison of App.tsx:398).
SilenceInterval ==
    \E s \in SessIds, e \in {SilenceThresholdMs, SilenceThresholdMs + SupervisorPeriodMs} :
        /\ sess[s].interval
        /\ Set([silenceCheck(Cur, s, e) EXCEPT !.elapsed = elapsed])
        /\ Settle

\* With the clock modelled: one supervisor period passes.
SupervisorTick ==
    /\ \E s \in SessIds : sess[s].interval
    /\ Set(supervisorTick(Cur))
    /\ Settle

VoicedFrame ==
    \E s \in SessIds :
        /\ sess[s].st = "open" /\ sess[s].proc /\ sess[s].stream
        /\ elapsed > 0
        /\ Set(voicedFrame(Cur))
        /\ Settle

\* A scheduler that starts every chunk at the clock's time.
audioChunkAtClock(C, now, d) ==
    [C EXCEPT !.currentTime = now,
              !.chunk = [start |-> now, dur |-> d],
              !.nextStartTimeRef = now + d,
              !.sources = @ + 1]

\* The audio part of onmessage (App.tsx:500-513): now is ctx.currentTime and
\* d is buf.duration.
audioChunk(C, now, d) ==
    LET start == Max(C.nextStartTimeRef, now)
    IN  [C EXCEPT !.currentTime = now,
                  !.chunk = [start |-> start, dur |-> d],
                  !.nextStartTimeRef = start + d,
                  !.sources = @ + 1]

\* An audio message on an open session: the clock of the context has not
\* gone back since it was last read.
AudioChunk ==
    \E s \in SessIds, now \in currentTime..MaxTime, d \in Durations :
        /\ sess[s].st = "open"
        /\ audioContextRef
        /\ sources < MaxSources
        /\ Max(nextStartTimeRef, now) + d <= MaxTime
        /\ Set(audioChunk(Cur, now, d))
        /\ Settle

\* src.onended (App.tsx:512)
SourceEnded ==
    /\ sources > 0
    /\ Set([Cur EXCEPT !.sources = @ - 1])
    /\ Settle

(***************************************************************************)
(* Application data.  A task is [id, title], a project [id, name, tasks],  *)
(* AppData is [projects, calendar]; the calendar is a function from the    *)
(* dates that are keys of the object to the list of task ids of that date. *)
(* Names and titles are sequences of one-character strings.  0 stands for  *)
(* null in expandedProjectId.                                              *)
(***************************************************************************)
MaxNew == 2        \* ids crypto.randomUUID() produces after the load
MaxBatch == 2      \* function calls in one tool-call message
MaxOps == 2        \* tool-call messages and UI edits in one behaviour

Dates == {"2025-01-01", "2025-01-02"}

\* What storageService.loadData returns (part_000:35-46): the parsed content
\* of localStorage, here two projects with one task each, both scheduled.
StoredData ==
    [projects |-> << [id |-> 1, name |-> <<"A", "b">>,
                      tasks |-> << [id |-> 3, title |-> <<"X">>] >>],
                     [id |-> 2, name |-> <<"b">>,
                      tasks |-> << [id |-> 4, title |-> <<"x", "y">>] >>] >>,
     calendar |-> ("2025-01-01" :> <<3, 4>>)]

StoredIds == 4     \* the ids in StoredData

\* An argument the call does not carry: a value that is no string (its one
\* element is not a character).
undefined == <<"undefined">>

\* The arguments the model and the user supply.
ProjectNames == { <<"B">> }
ProjectQueries == { <<"b">>, <<"A", "B">> }
TaskTitles == { <<"X", "y">> }
TaskQueries == { <<"x">>, <<"Y">> }

\* A search that returns the last element the predicate holds of.
findLastIndex(hits) ==
    IF \E i \in 1..Len(hits) : hits[i]
    THEN CHOOSE i \in 1..Len(hits) : hits[i] /\ \A j \in (i + 1)..Len(hits) : ~hits[j]
    ELSE 0

\* Array.prototype.findIndex, with 0 for -1: hits[i] tells whether the
\* predicate holds of the i-th element.
findIndex(hits) ==
    IF \E i \in 1..Len(hits) : hits[i]
    THEN CHOOSE i \in 1..Len(hits) : hits[i] /\ \A j \in 1..(i - 1) : ~hits[j]
    ELSE 0

\* The index of the element of seq whose id is id, or 0.
indexOfId(seq, id) == findIndex([i \in 1..Len(seq) |-> seq[i].id = id])

\* Array.prototype.splice(i): everything from the i-th element on goes.
spliceToEnd(seq, i) == SubSeq(seq, 1, i - 1)

\* Array.prototype.splice(i, 1)
splice(seq, i) ==
    [j \in 1..(Len(seq) - 1) |-> IF j < i THEN seq[j] ELSE seq[j + 1]]

\* Array.prototype.includes
arrayIncludes(seq, x) == \E i \in 1..Len(seq) : seq[i] = x

\* project.tasks.map(t => t.id), as a set
taskIdsOf(project) == {project.tasks[i].id : i \in 1..Len(project.tasks)}

\* p.name.toLowerCase().includes(pName)
nameMatches(p, pName) == includes(toLowerCase(p.name), pName)

\* tsk.title.toLowerCase().includes(tTitle)
titleMatches(tsk, tTitle) == includes(toLowerCase(tsk.title), tTitle)

\* A lookup that falls back on the first project when no name matches.
findProjectOrFirst(projects, pName) ==
    LET i == findIndex([k \in 1..Len(projects) |-> nameMatches(projects[k], pName)])
    IN  IF i = 0 /\ projects # <<>> THEN 1 ELSE i

\* tempState.projects.findIndex(p => p.name.toLowerCase().includes(pName))
findProject(projects, pName) ==
    findIndex([i \in 1..Len(projects) |-> nameMatches(projects[i], pName)])

\* for (const p of projects) { t = p.tasks.find(...); if (t) break } : the
\* indices of the project and of the task, or 0 and 0.
findTask(projects, tTitle) ==
    LET pi == findIndex([k \in 1..Len(projects) |->
                            \E i \in 1..Len(projects[k].tasks) :
                                titleMatches(projects[k].tasks[i], tTitle)])
    IN  IF pi = 0 THEN [p |-> 0, t |-> 0]
        ELSE [p |-> pi,
              t |-> findIndex([i \in 1..Len(projects[pi].tasks) |->
                                  titleMatches(projects[pi].tasks[i], tTitle)])]

\* A purge whose filter keeps the ids it should drop.
purgeWrongIds(calendar, taskIds) ==
    LET f == [d \in DOMAIN calendar |->
                 SelectSeq(calendar[d], LAMBDA tid : tid \in taskIds)]
    IN  [d \in {x \in DOMAIN calendar : f[x] # <<>>} |-> f[d]]

\* Object.keys(calendar).forEach(date => { calendar[date] = calendar[date]
\*   .filter(tid => !taskIds.includes(tid)); if (calendar[date].length === 0)
\*   delete calendar[date] })
purge(calendar, taskIds) ==
    LET f == [d \in DOMAIN calendar |->
                 SelectSeq(calendar[d], LAMBDA tid : tid \notin taskIds)]
    IN  [d \in {x \in DOMAIN calendar : f[x] # <<>>} |-> f[d]]

\* calendar[date] || []
tasksOn(calendar, date) ==
    IF date \in DOMAIN calendar THEN calendar[date] ELSE <<>>

\* calendar[date] = list
setDate(calendar, date, list) ==
    [d \in (DOMAIN calendar) \cup {date} |-> IF d = date THEN list ELSE calendar[d]]

\* A scheduling that appends without looking at the list.
scheduleAlways(calendar, date, id) ==
    setDate(calendar, date, Append(tasksOn(calendar, date), id))

\* const currentTasks = calendar[date] || [];
\* if (!currentTasks.includes(id)) calendar[date] = [...currentTasks, id]
schedule(calendar, date, id) ==
    IF arrayIncludes(tasksOn(calendar, date), id) THEN calendar
    ELSE setDate(calendar, date, Append(tasksOn(calendar, date), id))

\* A removal that filters the id out of every date.
unscheduleEverywhere(calendar, date, id) == purge(calendar, {id})

\* if (calendar[date]) calendar[date] = calendar[date].filter(x => x !== id)
unschedule(calendar, date, id) ==
    IF date \in DOMAIN calendar
    THEN setDate(calendar, date, SelectSeq(calendar[date], LAMBDA x : x # id))
    ELSE calendar

\* A project object of tempState.projects is the object of
\* dataRef.current.projects with the same id (the array is copied, the
\* objects are not): what is pushed to or spliced from its tasks in place
\* shows in dataRef.current too.
inPlace(pre, pid, tasks) ==
    [i \in 1..Len(pre) |->
        IF pre[i].id = pid THEN [pre[i] EXCEPT !.tasks = tasks] ELSE pre[i]]

\* The state of one run of the tool loop of onmessage: tempState (projects,
\* calendar), expandedProjectIdRef.current (sel), dataRef.current.projects
\* (pre), the ids produced, hasChanges, responses, the result of the call
\* being executed, and whether endSession was called.
startBatch ==
    [projects |-> dataRef.projects, calendar |-> dataRef.calendar,
     sel |-> expandedProjectIdRef, pre |-> dataRef.projects,
     nextId |-> nextId, hasChanges |-> FALSE, responses |-> <<>>,
     result |-> <<"ok">>, ended |-> FALSE, overflow |-> FALSE]

\* crypto.randomUUID()
randomUUID(X) == X.nextId + 1
drawn(X) ==
    [X EXCEPT !.nextId = @ + 1, !.overflow = @ \/ X.nextId >= StoredIds + MaxNew]

\* The tool branches of src/App.tsx (447-487).  A call without a branch
\* leaves the result { status: 'ok' }.
toolApp(X, c) ==
    CASE c.name = "createProject" ->
            LET id == randomUUID(X)
            IN  [drawn(X) EXCEPT
                    !.projects = Append(@, [id |-> id, name |-> c.projectName,
                                            tasks |-> <<>>]),
                    !.sel = id,
                    !.result = <<"Created">>]
      [] c.name = "createTask" ->
            LET i == findProject(X.projects, toLowerCase(c.projectName))
                id == randomUUID(X)
            IN  IF i = 0 THEN [X EXCEPT !.result = <<"Project not found">>]
                ELSE LET tasks == Append(X.projects[i].tasks,
                                         [id |-> id, title |-> c.taskTitle])
                     IN  [drawn(X) EXCEPT
                             !.projects[i].tasks = tasks,
                             !.pre = inPlace(@, X.projects[i].id, tasks),
                             !.result = <<"Created task">>]
      [] c.name = "deleteCurrentProject" ->
            LET idx == indexOfId(X.projects, X.sel)
            IN  IF X.sel # 0 /\ idx > 0
                THEN [X EXCEPT !.projects = splice(@, idx),
                               !.sel = 0,
                               !.result = <<"Deleted">>]
                ELSE X
      [] c.name = "selectProject" ->
            LET i == findProject(X.projects, toLowerCase(c.projectName))
            IN  IF i = 0 THEN X
                ELSE [X EXCEPT !.sel = X.projects[i].id,
                               !.result = <<"Selected">>]
      [] c.name = "scheduleTask" ->
            LET f == findTask(X.projects, toLowerCase(c.taskTitle))
            IN  IF f.p = 0 THEN X
                ELSE [X EXCEPT
                        !.calendar = schedule(@, c.date, X.projects[f.p].tasks[f.t].id),
                        !.result = <<"Scheduled">>]
      [] OTHER -> X

\* The branch of the call reads .toLowerCase() of an argument the call does
\* not have: a TypeError, thrown before the branch has changed anything
\* (App.tsx:453, 470, 475).
throwsApp(c) ==
    \/ c.name \in {"createTask", "selectProject"} /\ c.projectName = undefined
    \/ c.name = "scheduleTask" /\ c.taskTitle = undefined

\* One iteration of the loop of src/App.tsx (432-491); id is fc.id.  The
\* catch (App.tsx:488) logs the error and leaves result as it is.
applyApp(X, c, id) ==
    LET Y == IF c.name = "endSession"
             THEN [X EXCEPT !.result = <<"ok">>, !.ended = TRUE]
             ELSE IF throwsApp(c)
             THEN [X EXCEPT !.result = <<"ok">>, !.hasChanges = TRUE]
             ELSE toolApp([X EXCEPT !.result = <<"ok">>, !.hasChanges = TRUE], c)
    IN  [Y EXCEPT !.responses = Append(@, [id |-> id, name |-> c.name,
                                           result |-> Y.result])]

\* The tool branches of part_008 (508-657).  The template literals are kept
\* as the sequence of their pieces.
toolP8(X, c) ==
    CASE c.name = "createProject" ->
            LET id == randomUUID(X)
            IN  [drawn(X) EXCEPT
                    !.projects = Append(@, [id |-> id, name |-> c.projectName,
                                            tasks |-> <<>>]),
                    !.result = <<"Created project: ", c.projectName>>,
                    !.sel = id]
      [] c.name = "createTask" ->
            LET pName == toLowerCase(c.projectName)
                i == findProject(X.projects, pName)
                id == randomUUID(X)
            IN  IF i = 0 THEN [X EXCEPT !.result = <<"Project not found", pName>>]
                ELSE LET tasks == Append(X.projects[i].tasks,
                                         [id |-> id, title |-> c.taskTitle])
                     IN  [drawn(X) EXCEPT
                             !.projects[i].tasks = tasks,
                             !.pre = inPlace(@, X.projects[i].id, tasks),
                             !.result = <<"Added task to project", c.taskTitle,
                                          X.projects[i].name>>]
      [] c.name = "selectProject" ->
            LET i == findProject(X.projects, toLowerCase(c.projectName))
            IN  IF i = 0 THEN [X EXCEPT !.result = <<"Project not found">>]
                ELSE [X EXCEPT !.sel = X.projects[i].id,
                               !.result = <<"Selected project: ", X.projects[i].name>>]
      [] c.name = "deleteProject" ->
            LET projectIndex == findProject(X.projects, toLowerCase(c.projectName))
            IN  IF projectIndex = 0 THEN [X EXCEPT !.result = <<"Project not found">>]
                ELSE LET project == X.projects[projectIndex]
                     IN  [X EXCEPT
                             !.calendar = purge(@, taskIdsOf(project)),
                             !.projects = splice(@, projectIndex),
                             !.result = <<"Deleted project: ", project.name>>]
      [] c.name = "deleteCurrentProject" ->
            LET projectIndex == indexOfId(X.projects, X.sel)
            IN  IF X.sel = 0
                THEN [X EXCEPT !.result = <<"No project is currently selected">>]
                ELSE IF projectIndex = 0
                THEN [X EXCEPT !.result = <<"Project ID found but data missing">>]
                ELSE LET project == X.projects[projectIndex]
                     IN  [X EXCEPT
                             !.calendar = purge(@, taskIdsOf(project)),
                             !.projects = splice(@, projectIndex),
                             !.sel = 0,
                             !.result = <<"Deleted selected project: ", project.name>>]
      [] c.name = "deleteTask" ->
            LET f == findTask(X.projects, toLowerCase(c.taskTitle))
            IN  IF f.p = 0 THEN [X EXCEPT !.result = <<"Task not found">>]
                ELSE LET t == X.projects[f.p].tasks[f.t]
                         tasks == splice(X.projects[f.p].tasks, f.t)
                     IN  [X EXCEPT
                             !.calendar = purge(@, {t.id}),
                             !.projects[f.p].tasks = tasks,
                             !.pre = inPlace(@, X.projects[f.p].id, tasks),
                             !.result = <<"Deleted task: ", t.title>>]
      [] c.name = "scheduleTask" ->
            LET f == findTask(X.projects, toLowerCase(c.taskTitle))
            IN  IF f.p = 0 THEN [X EXCEPT !.result = <<"Task not found">>]
                ELSE LET foundTask == X.projects[f.p].tasks[f.t]
                     IN  [X EXCEPT
                             !.calendar = schedule(@, c.date, foundTask.id),
                             !.result = <<"Scheduled for", foundTask.title, c.date>>]
      [] c.name = "removeTaskFromCalendar" ->
            LET f == findTask(X.projects, toLowerCase(c.taskTitle))
            IN  IF f.p = 0 THEN [X EXCEPT !.result = <<"Task not found">>]
                ELSE LET foundTask == X.projects[f.p].tasks[f.t]
                     IN  [X EXCEPT
                             !.calendar = unschedule(@, c.date, foundTask.id),
                             !.result = <<"Removed from", foundTask.title, c.date>>]
      [] OTHER -> X

\* The same for the branches of part_008 (532, 551, 562, 604, 624, 642).
throwsP8(c) ==
    \/ c.name \in {"createTask", "selectProject", "deleteProject"}
          /\ c.projectName = undefined
    \/ c.name \in {"deleteTask", "scheduleTask", "removeTaskFromCalendar"}
          /\ c.taskTitle = undefined

\* A catch that lets the iteration end without a response.
applyP8Dropping(X, c, id) ==
    IF throwsP8(c) THEN [X EXCEPT !.hasChanges = TRUE]
    ELSE LET Y == toolP8([X EXCEPT !.result = <<"ok">>, !.hasChanges = TRUE], c)
         IN  [Y EXCEPT !.responses = Append(@, [id |-> id, name |-> c.name,
                                                result |-> Y.result])]

\* One iteration of the loop of part_008 (502-668); the catch (658-661) sets
\* the result.
applyP8(X, c, id) ==
    LET Y == IF throwsP8(c)
             THEN [X EXCEPT !.result = <<"Error executing command">>,
                            !.hasChanges = TRUE]
             ELSE toolP8([X EXCEPT !.result = <<"ok">>, !.hasChanges = TRUE], c)
    IN  [Y EXCEPT !.responses = Append(@, [id |-> id, name |-> c.name,
                                           result |-> Y.result])]

\* A loop in which every call starts from the snapshot of the batch start:
\* only the last call of the message leaves its effect.
runUnchained(b, X0, calls) ==
    IF calls = <<>> THEN X0
    ELSE IF b = "App" THEN applyApp(X0, calls[Len(calls)], Len(calls))
    ELSE applyP8(X0, calls[Len(calls)], Len(calls))

\* The iterations k, k + 1, ... of the loop, the id of a call being its
\* position in the message.  X is bound to the value of X0.
RECURSIVE runFrom(_, _, _, _)
runFrom(b, X0, calls, k) ==
    CHOOSE R \in { IF k > Len(calls) THEN X
                   ELSE runFrom(b, IF b = "App" THEN applyApp(X, calls[k], k)
                                               ELSE applyP8(X, calls[k], k),
                                calls, k + 1) : X \in {X0} } : TRUE

\* for (const fc of msg.toolCall.functionCalls) { ... }
run(b, X0, calls) == runFrom(b, X0, calls, 1)

\* The function calls the model can send: the declared tools of each build
\* (App.tsx:81-185, part_008:79-175) with every argument of the sets above.
CallsOf(b) ==
    {[name |-> "createProject", projectName |-> n] : n \in ProjectNames}
    \cup {[name |-> "createTask", projectName |-> q, taskTitle |-> t] :
             q \in ProjectQueries, t \in TaskTitles}
    \cup {[name |-> "selectProject", projectName |-> q] : q \in ProjectQueries}
    \cup {[name |-> "deleteProject", projectName |-> q] : q \in ProjectQueries}
    \cup {[name |-> "deleteCurrentProject"]}
    \cup {[name |-> "deleteTask", taskTitle |-> q] : q \in TaskQueries}
    \cup {[name |-> "scheduleTask", taskTitle |-> q, date |-> d] :
             q \in TaskQueries, d \in Dates}
    \cup {[name |-> "removeTaskFromCalendar", taskTitle |-> q, date |-> d] :
             q \in TaskQueries, d \in Dates}
    \cup (IF b = "App" THEN {[name |-> "endSession"]} ELSE {})
    \cup {[name |-> "createTask", projectName |-> undefined, taskTitle |-> t] :
             t \in TaskTitles}
    \cup {[name |-> "scheduleTask", taskTitle |-> undefined, date |-> "2025-01-01"]}

Batches(b) == UNION {[1..n -> CallsOf(b)] : n \in 1..MaxBatch}

(***************************************************************************)
(* The UI handlers (App.tsx:573-657, 688-703; the same code is in part_008 *)
(* 238-322, 784-799 and in hooks/useAppLogic.ts), as functions of prev.    *)
(***************************************************************************)
\* handleSaveProject with editingProject null: id is crypto.randomUUID()
handleSaveProjectNew(prev, id, name) ==
    [prev EXCEPT !.projects = Append(@, [id |-> id, name |-> name, tasks |-> <<>>])]

\* handleSaveProject with editingProject.id = id
handleSaveProjectEdit(prev, id, name) ==
    [prev EXCEPT !.projects =
        [i \in 1..Len(@) |-> IF @[i].id = id THEN [@[i] EXCEPT !.name = name] ELSE @[i]]]

handleDeleteProject(prev, id) ==
    LET idx == indexOfId(prev.projects, id)
        taskIds == IF idx = 0 THEN {} ELSE taskIdsOf(prev.projects[idx])
    IN  [projects |-> SelectSeq(prev.projects, LAMBDA p : p.id # id),
         calendar |-> purge(prev.calendar, taskIds)]

\* handleSaveTask with editingTask.task null: id is crypto.randomUUID()
handleSaveTaskNew(prev, projectId, id, title) ==
    [prev EXCEPT !.projects =
        [i \in 1..Len(@) |->
            IF @[i].id # projectId THEN @[i]
            ELSE [@[i] EXCEPT !.tasks = Append(@, [id |-> id, title |-> title])]]]

\* handleSaveTask with editingTask.task.id = taskId
handleSaveTaskEdit(prev, projectId, taskId, title) ==
    [prev EXCEPT !.projects =
        [i \in 1..Len(@) |->
            IF @[i].id # projectId THEN @[i]
            ELSE [@[i] EXCEPT !.tasks =
                    [j \in 1..Len(@) |->
                        IF @[j].id = taskId THEN [@[j] EXCEPT !.title = title]
                        ELSE @[j]]]]]

handleDeleteTask(prev, projectId, taskId) ==
    [projects |->
        [i \in 1..Len(prev.projects) |->
            IF prev.projects[i].id # projectId THEN prev.projects[i]
            ELSE [prev.projects[i] EXCEPT
                     !.tasks = SelectSeq(@, LAMBDA t : t.id # taskId)]],
     calendar |-> purge(prev.calendar, {taskId})]

handleRemoveTaskFromCalendar(prev, date, taskId) ==
    [prev EXCEPT !.calendar =
        setDate(@, date, SelectSeq(prev.calendar[date], LAMBDA id : id # taskId))]

\* A drop that appends without looking at the list.
handleDragEndAlways(prev, taskId, dateStr) ==
    [prev EXCEPT !.calendar =
        setDate(@, dateStr, Append(tasksOn(prev.calendar, dateStr), taskId))]

handleDragEnd(prev, taskId, dateStr) ==
    [prev EXCEPT !.calendar = schedule(@, dateStr, taskId)]

\* The ids of the projects and of the tasks the board shows.
ProjectIdsOf(d) == {d.projects[i].id : i \in 1..Len(d.projects)}
TaskIdsIn(d) == UNION {taskIdsOf(d.projects[i]) : i \in 1..Len(d.projects)}
\* The tasks a calendar day shows: tasksByDate (App.tsx:662-674) drops the ids
\* that resolve to no task.
ShownOn(d, date) ==
    {tid \in TaskIdsIn(d) : arrayIncludes(tasksOn(d.calendar, date), tid)}

(***************************************************************************)
(* The actions on the data                                                 *)
(***************************************************************************)
\* setData / setExpandedProjectId and the effects they schedule
\* (App.tsx:234-243): a state that does not change schedules none.
Render(newData, changed, newExpanded, ids) ==
    /\ data' = newData
    /\ expandedProjectId' = newExpanded
    /\ nextId' = ids
    /\ effects' = effects \cup (IF changed THEN {"data"} ELSE {})
                          \cup (IF newExpanded # expandedProjectId
                                THEN {"expandedProjectId"} ELSE {})
    /\ build' = build
    /\ ops' = ops + 1
    /\ stored' = stored

UiStep(newData, changed, newExpanded, ids) ==
    /\ Render(newData, changed, newExpanded, ids)
    /\ unseen' = IF changed THEN Append(unseen, "ui") ELSE unseen
    /\ UNCHANGED <<dataRef, expandedProjectIdRef>>
    /\ UNCHANGED ctlVars

\* storageService.saveData (part_000:48-54): localStorage.setItem of
\* JSON.stringify(d).  The text is represented by the data it parses to:
\* ids, names and titles are strings, projects and tasks arrays, the calendar
\* an object whose keys keep their order.
saveData(d) == [projects |-> d.projects, calendar |-> d.calendar]

\* The condition of App.tsx:235
worthSaving(d) == Len(d.projects) > 0 \/ DOMAIN d.calendar # {}

\* The effects of App.tsx:234-243 run.
Effects ==
    /\ effects # {}
    /\ stored' = IF "data" \in effects /\ worthSaving(data)
                 THEN saveData(data) ELSE stored
    /\ dataRef' = IF "data" \in effects THEN data ELSE dataRef
    /\ expandedProjectIdRef' = IF "expandedProjectId" \in effects
                               THEN expandedProjectId ELSE expandedProjectIdRef
    /\ effects' = {}
    /\ unseen' = IF "data" \in effects THEN <<>> ELSE unseen
    /\ UNCHANGED <<data, expandedProjectId, nextId, build, ops>>
    /\ UNCHANGED ctlVars

\* A commit that does not look at hasChanges.
commitAlways(X) ==
    [data |-> [projects |-> X.projects, calendar |-> X.calendar],
     setData |-> TRUE,
     expandedProjectId |-> IF X.sel # 0 THEN X.sel ELSE expandedProjectId]

\* if (hasChanges) { setData(tempState);
\*   if (expandedProjectIdRef.current) setExpandedProjectId(...) }
\* (App.tsx:493-496, part_008:670-676): the state the next render shows and
\* whether setData was called.
commit(X) ==
    [data |-> IF X.hasChanges
              THEN [projects |-> X.projects, calendar |-> X.calendar]
              ELSE data,
     setData |-> X.hasChanges,
     expandedProjectId |-> IF X.hasChanges /\ X.sel # 0 THEN X.sel
                           ELSE expandedProjectId]

\* callbacks.onmessage with msg.toolCall (App.tsx:425-498, part_008:488-679)
\* on an open session.
onmessageToolCall(s, calls) ==
    /\ sess[s].st = "open"
    /\ LET X == run(build, startBatch, calls)
           K == commit(X)
       IN  /\ ~X.overflow
           /\ Render(K.data, K.setData, K.expandedProjectId, X.nextId)
           /\ unseen' = IF K.setData THEN Append(unseen, "tool") ELSE unseen
           /\ dataRef' = [dataRef EXCEPT !.projects = X.pre]
           /\ expandedProjectIdRef' = X.sel
           /\ IF X.ended THEN SetCtl(endSessionCall(Cur, s))
                         ELSE UNCHANGED <<aiMode, aiModeRef, hasSR, recognitionRef,
                                          recs, sessionRef, sess, mediaStreamRef,
                                          silenceTimerRef, inputContextRef,
                                          audioContextRef, pend, sources, elapsed,
                                          nextStartTimeRef, currentTime, chunk,
                                          shouldRestartWaitingRef, frame, blob>>
    /\ Settle

ToolBatch ==
    \E s \in SessIds, calls \in Batches(build) : onmessageToolCall(s, calls)

HandleSaveProject ==
    \/ \E name \in ProjectNames :
          /\ nextId < StoredIds + MaxNew
          /\ UiStep(handleSaveProjectNew(data, nextId + 1, name), TRUE,
                    expandedProjectId, nextId + 1)
    \/ \E id \in ProjectIdsOf(data), name \in ProjectNames :
          UiStep(handleSaveProjectEdit(data, id, name), TRUE,
                 expandedProjectId, nextId)

HandleDeleteProject ==
    \E id \in ProjectIdsOf(data) :
        UiStep(handleDeleteProject(data, id), TRUE,
               IF expandedProjectId = id THEN 0 ELSE expandedProjectId, nextId)

HandleSaveTask ==
    \/ \E projectId \in ProjectIdsOf(data), title \in TaskTitles :
          /\ nextId < StoredIds + MaxNew
          /\ UiStep(handleSaveTaskNew(data, projectId, nextId + 1, title), TRUE,
                    expandedProjectId, nextId + 1)
    \/ \E i \in 1..Len(data.projects), title \in TaskTitles :
          \E taskId \in taskIdsOf(data.projects[i]) :
              UiStep(handleSaveTaskEdit(data, data.projects[i].id, taskId, title),
                     TRUE, expandedProjectId, nextId)

HandleDeleteTask ==
    \E i \in 1..Len(data.projects) :
        \E taskId \in taskIdsOf(data.projects[i]) :
            UiStep(handleDeleteTask(data, data.projects[i].id, taskId), TRUE,
                   expandedProjectId, nextId)

HandleRemoveTaskFromCalendar ==
    \E date \in DOMAIN data.calendar :
        \E taskId \in ShownOn(data, date) :
            UiStep(handleRemoveTaskFromCalendar(data, date, taskId), TRUE,
                   expandedProjectId, nextId)

HandleDragEnd ==
    \E taskId \in TaskIdsIn(data), dateStr \in Dates :
        LET d == handleDragEnd(data, taskId, dateStr)
        IN  UiStep(d, ~arrayIncludes(tasksOn(data.calendar, dateStr), taskId),
                   expandedProjectId, nextId)

\* onToggleProject (App.tsx:716)
ToggleProject ==
    \E id \in ProjectIdsOf(data) :
        UiStep(data, FALSE, IF expandedProjectId = id THEN 0 ELSE id, nextId)

\* A document handleImportFromUrl fetches: well-formed AppData, with ids of
\* its own.
ImportedData ==
    [projects |-> << [id |-> -1, name |-> <<"B">>,
                      tasks |-> << [id |-> -2, title |-> <<"Y">>] >>] >>,
     calendar |-> ("2025-01-02" :> <<-2>>)]

\* handleImportFromUrl (App.tsx:548-570) once fetch and response.json() have
\* settled, the document is valid and the user confirms: setData(json).  It
\* runs as the continuation of a promise, not in an input event.
Import ==
    /\ Render(ImportedData, TRUE, expandedProjectId, nextId)
    /\ unseen' = Append(unseen, "import")
    /\ UNCHANGED <<dataRef, expandedProjectIdRef>>
    /\ UNCHANGED ctlVars


InitCtlWith(n) ==
    /\ aiMode = "OFF"
    /\ aiModeRef = "OFF"
    /\ hasSR \in BOOLEAN
    /\ recognitionRef = 0
    /\ recs = NoRecs(n)
    /\ sessionRef = 0
    /\ sess = [i \in SessIds |-> FreeSess]
    /\ mediaStreamRef = 0
    /\ silenceTimerRef = 0
    /\ inputContextRef = FALSE
    /\ audioContextRef = FALSE
    /\ pend = [resumeIn |-> 0, resumeOut |-> 0, mic |-> 0]
    /\ sources = 0
    /\ elapsed = 0
    /\ nextStartTimeRef = 0
    /\ currentTime = 0
    /\ chunk = NoChunk
    /\ userStopped = FALSE
    /\ shouldRestartWaitingRef = FALSE
    /\ frame = <<>>
    /\ blob = NoBlob

InitCtl == InitCtlWith(MaxRecCtl)

\* The data before the load effect has run (App.tsx:190-212).
InitData ==
    /\ data = [projects |-> <<>>, calendar |-> <<>>]
    /\ dataRef = [projects |-> <<>>, calendar |-> <<>>]
    /\ expandedProjectId = 0
    /\ expandedProjectIdRef = 0
    /\ nextId = 0
    /\ build = "App"
    /\ effects = {}
    /\ ops = 0
    /\ stored = [projects |-> <<>>, calendar |-> <<>>]
    /\ unseen = <<>>

Init == InitCtl /\ InitData

Next ==
    \/ ToggleAi
    \/ OnResult
    \/ OnError
    \/ OnEnd
    \/ RetryTimer
    \/ ResumeInSettled
    \/ ResumeOutSettled
    \/ GetUserMediaSettled
    \/ SessionOpen
    \/ ConnectReject
    \/ SessionError
    \/ SessionClose
    \/ RestartTimer
    \/ EndSessionCall
    \/ GraceTimer
    \/ SilenceInterval
    \/ AudioChunk
    \/ SourceEnded

Spec == Init /\ [][Next]_vars

\* The listener and the acquisition of a session, with room for a second
\* recognizer: the recognizer's events, the awaits of startActiveMode, and
\* the end of the session.
NextListener ==
    \/ ToggleAi
    \/ OnResult
    \/ OnError
    \/ OnEnd
    \/ RetryTimer
    \/ ResumeInSettled
    \/ ResumeOutSettled
    \/ GetUserMediaSettled
    \/ SessionOpen
    \/ ConnectReject
    \/ SessionError
    \/ SessionClose
    \/ RestartTimer

InitListener == InitCtlWith(MaxRec) /\ InitData

SpecListener == InitListener /\ [][NextListener]_vars

(***************************************************************************)
(* The controller of src/unnamed/part_008 (359-487, 699-744): the mode is  *)
(* the React state aiMode, and shouldRestartWaitingRef tells the callbacks *)
(* whether the feature is on.                                              *)
(***************************************************************************)
\* A session created by ai.live.connect (part_008:459): st and closeReq as
\* above; stream: the MediaStream of getUserMedia (457), which no code
\* stops; proc: the script processor of onopen (473-487) is installed;
\* timers: the pending timers of onclose and onerror (704, 715).
FreeSessP8 ==
    [st |-> "free", closeReq |-> FALSE, stream |-> FALSE, proc |-> FALSE,
     timers |-> 0]

CurP8 ==
    [aiMode |-> aiMode, recognitionRef |-> recognitionRef, recs |-> recs,
     sessionRef |-> sessionRef, sess |-> sess,
     inputContextRef |-> inputContextRef, audioContextRef |-> audioContextRef,
     pend |-> pend, shouldRestartWaitingRef |-> shouldRestartWaitingRef,
     overflow |-> FALSE]

\* SpeechRecognition.stop(): a started recognizer stops and delivers its end
\* event later; otherwise nothing happens.
stop(r) == IF r.st = "started" THEN [r EXCEPT !.st = "stopping"] ELSE r

\* Objects nothing refers to any more and that no pending callback can reach.
CollectP8(C) ==
    [C EXCEPT
       !.recs = [i \in RecIds |->
                   IF i # C.recognitionRef /\ C.recs[i].st \in {"new", "ended"}
                   THEN FreeRec ELSE C.recs[i]],
       !.sess = [i \in SessIds |->
                   IF /\ i # C.sessionRef
                      /\ C.sess[i].st \in {"closed", "rejected"}
                      /\ C.sess[i].timers = 0
                   THEN FreeSessP8 ELSE C.sess[i]]]

\* fullAiCleanup (part_008:359-372)
fullAiCleanup(C) ==
    LET C1 == IF C.sessionRef # 0
              THEN [C EXCEPT !.sess[C.sessionRef] = closeSession(@),
                             !.sessionRef = 0]
              ELSE C
        C2 == IF C1.recognitionRef # 0
              THEN [C1 EXCEPT !.recs[C1.recognitionRef] = stop(@),
                              !.recognitionRef = 0]
              ELSE C1
    IN  [C2 EXCEPT !.inputContextRef = FALSE, !.audioContextRef = FALSE]

\* startWakeWordListener (part_008:374-432); throws: recognition.start()
\* throws.
startWakeWordListener(C, throws) ==
    IF ~hasSR THEN [C EXCEPT !.aiMode = "OFF"]
    ELSE LET C1 == IF C.recognitionRef # 0
                   THEN [C EXCEPT !.recs[C.recognitionRef] = stop(@)]
                   ELSE C
             r == FreeRecSlot(C1)
         IN  IF r = 0 THEN [C1 EXCEPT !.overflow = TRUE]
             ELSE IF throws
             THEN [C1 EXCEPT !.recs[r] = [st |-> "new", onend |-> TRUE,
                                          retry |-> FALSE],
                             !.recognitionRef = r,
                             !.aiMode = "OFF"]
             ELSE [C1 EXCEPT !.recs[r] = [st |-> "started", onend |-> TRUE,
                                          retry |-> FALSE],
                             !.recognitionRef = r,
                             !.aiMode = "WAITING",
                             !.shouldRestartWaitingRef = TRUE]

\* stopWakeWordListener (part_008:434-440)
stopWakeWordListener(C) ==
    LET C1 == [C EXCEPT !.shouldRestartWaitingRef = FALSE]
    IN  IF C1.recognitionRef # 0
        THEN [C1 EXCEPT !.recs[C1.recognitionRef] = stop(@),
                        !.recognitionRef = 0]
        ELSE C1

\* connectToGeminiLive up to its await (part_008:442-457)
connectToGeminiLive(C) ==
    LET C1 == stopWakeWordListener(C)
    IN  IF PendTotal(C1.pend) >= MaxPend THEN [C1 EXCEPT !.overflow = TRUE]
        ELSE [C1 EXCEPT !.aiMode = "ACTIVE",
                        !.inputContextRef = TRUE,
                        !.audioContextRef = TRUE,
                        !.pend.mic = @ + 1]

\* connectToGeminiLive after getUserMedia has settled (part_008:457-459,
\* 725, and the catch 727-731)
afterGetUserMediaP8(C, ok, throws) ==
    LET C1 == [C EXCEPT !.pend.mic = @ - 1]
        s == FreeSessSlot(C1)
    IN  IF ~ok THEN startWakeWordListener([C1 EXCEPT !.aiMode = "OFF"], throws)
        ELSE IF s = 0 THEN [C1 EXCEPT !.overflow = TRUE]
        ELSE [C1 EXCEPT !.sess[s] = [FreeSessP8 EXCEPT !.st = "connecting",
                                                       !.stream = TRUE],
                        !.sessionRef = s]

\* recognition.onresult (part_008:394-405)
onresultP8(C, r, results) ==
    IF hasWake(results)
    THEN connectToGeminiLive([C EXCEPT !.recs[r] = stop(@)])
    ELSE C

\* recognition.onerror with event.error === 'not-allowed' (part_008:407-413)
recognitionErrorP8(C, r) ==
    [C EXCEPT !.recs[r].st = "denied", !.aiMode = "OFF"]

\* The end event of recognizer r, and recognition.onend (part_008:416-420)
onendP8(C, r, throws) ==
    LET e == [C.recs[r] EXCEPT !.st = "ended"]
    IN  IF C.shouldRestartWaitingRef
        THEN [C EXCEPT !.recs[r] = tryStart(e, throws)]
        ELSE [C EXCEPT !.recs[r] = e]

\* callbacks.onopen (part_008:473-487)
onopenP8(C, s) == [C EXCEPT !.sess[s] = [@ EXCEPT !.st = "open", !.proc = TRUE]]

\* The body of callbacks.onclose and of callbacks.onerror (part_008:702-709,
\* 714-720)
backToWaiting(C, s) ==
    IF C.shouldRestartWaitingRef
    THEN [C EXCEPT !.sess[s].timers = @ + 1]
    ELSE [C EXCEPT !.aiMode = "OFF"]

\* callbacks.onclose (part_008:699-710)
oncloseP8(C, s) ==
    backToWaiting([C EXCEPT !.sess[s] = [@ EXCEPT !.st = "closed",
                                                  !.closeReq = FALSE]], s)

\* callbacks.onerror (part_008:711-721): the close event follows.
onerrorP8(C, s) ==
    backToWaiting([C EXCEPT !.sess[s] = [@ EXCEPT !.st = "erroring",
                                                  !.closeReq = FALSE]], s)

\* The timers of part_008:704 and 715
restartTimerP8(C, s, throws) ==
    startWakeWordListener([C EXCEPT !.sess[s].timers = @ - 1], throws)

\* toggleAi (part_008:734-744)
toggleAiP8(C, throws) ==
    IF C.aiMode = "OFF" THEN startWakeWordListener(C, throws)
    ELSE [fullAiCleanup([C EXCEPT !.shouldRestartWaitingRef = FALSE])
             EXCEPT !.aiMode = "OFF"]

SetP8(C) ==
    /\ ~C.overflow
    /\ LET N == CollectP8(C)
       IN  /\ aiMode' = N.aiMode
           /\ recognitionRef' = N.recognitionRef
           /\ recs' = N.recs
           /\ sessionRef' = N.sessionRef
           /\ sess' = N.sess
           /\ inputContextRef' = N.inputContextRef
           /\ audioContextRef' = N.audioContextRef
           /\ pend' = N.pend
           /\ shouldRestartWaitingRef' = N.shouldRestartWaitingRef
    /\ UNCHANGED <<aiModeRef, hasSR, mediaStreamRef, silenceTimerRef, sources,
                   elapsed, nextStartTimeRef, currentTime, chunk, frame, blob>>
    /\ UNCHANGED dataVars

\* The user clicks the button (part_008:864).
ToggleAiP8 ==
    \E throws \in BOOLEAN :
        /\ SetP8(toggleAiP8(CurP8, throws))
        /\ userStopped' = (aiMode # "OFF")

OnResultP8 ==
    \E r \in RecIds, results \in ResultLists :
        /\ recs[r].st = "started"
        /\ SetP8(onresultP8(CurP8, r, results))
        /\ Settle

OnErrorP8 ==
    \E r \in RecIds :
        /\ recs[r].st = "started"
        /\ SetP8(recognitionErrorP8(CurP8, r))
        /\ Settle

OnEndP8 ==
    \E r \in RecIds, throws \in BOOLEAN :
        /\ recs[r].st \in {"started", "stopping", "denied"}
        /\ SetP8(onendP8(CurP8, r, throws))
        /\ Settle

GetUserMediaSettledP8 ==
    \E ok \in BOOLEAN, throws \in BOOLEAN :
        /\ pend.mic > 0
        /\ SetP8(afterGetUserMediaP8(CurP8, ok, throws))
        /\ Settle

SessionOpenP8 ==
    \E s \in SessIds :
        /\ sess[s].st = "connecting"
        /\ SetP8(onopenP8(CurP8, s))
        /\ Settle

\* ai.live.connect's promise rejects: no callback runs, and nothing awaits
\* or catches the promise (part_008:459, 725).
ConnectRejectP8 ==
    \E s \in SessIds :
        /\ sess[s].st = "connecting"
        /\ SetP8([CurP8 EXCEPT !.sess[s] = [@ EXCEPT !.st = "rejected",
                                                     !.closeReq = FALSE]])
        /\ Settle

SessionErrorP8 ==
    \E s \in SessIds :
        /\ sess[s].st \in {"connecting", "open"}
        /\ SetP8(onerrorP8(CurP8, s))
        /\ Settle

\* The connection closes: after s.close(), after an error, or remotely.
SessionCloseP8 ==
    \E s \in SessIds :
        /\ sess[s].st \in {"open", "erroring"}
        /\ SetP8(oncloseP8(CurP8, s))
        /\ Settle

RestartTimerP8 ==
    \E s \in SessIds, throws \in BOOLEAN :
        /\ sess[s].timers > 0
        /\ SetP8(restartTimerP8(CurP8, s, throws))
        /\ Settle

NextWake ==
    \/ ToggleAiP8
    \/ OnResultP8
    \/ OnErrorP8
    \/ OnEndP8
    \/ GetUserMediaSettledP8
    \/ SessionOpenP8
    \/ ConnectRejectP8
    \/ SessionErrorP8
    \/ SessionCloseP8
    \/ RestartTimerP8

InitWake ==
    /\ aiMode = "OFF"
    /\ aiModeRef = "OFF"
    /\ hasSR \in BOOLEAN
    /\ recognitionRef = 0
    /\ recs = NoRecs(MaxRec)
    /\ sessionRef = 0
    /\ sess = [i \in SessIds |-> FreeSessP8]
    /\ mediaStreamRef = 0
    /\ silenceTimerRef = 0
    /\ inputContextRef = FALSE
    /\ audioContextRef = FALSE
    /\ pend = [resumeIn |-> 0, resumeOut |-> 0, mic |-> 0]
    /\ sources = 0
    /\ elapsed = 0
    /\ nextStartTimeRef = 0
    /\ currentTime = 0
    /\ chunk = NoChunk
    /\ userStopped = FALSE
    /\ shouldRestartWaitingRef = FALSE
    /\ frame = <<>>
    /\ blob = NoBlob
    /\ data = [projects |-> <<>>, calendar |-> <<>>]
    /\ dataRef = [projects |-> <<>>, calendar |-> <<>>]
    /\ expandedProjectId = 0
    /\ expandedProjectIdRef = 0
    /\ nextId = 0
    /\ build = "P8"
    /\ effects = {}
    /\ ops = 0
    /\ stored = [projects |-> <<>>, calendar |-> <<>>]
    /\ unseen = <<>>

SpecWake == InitWake /\ [][NextWake]_vars

\* The controller with the clock of the silence supervisor.
NextTimed ==
    \/ ToggleAi
    \/ OnResult
    \/ OnEnd
    \/ RetryTimer
    \/ ResumeInSettled
    \/ ResumeOutSettled
    \/ GetUserMediaSettled
    \/ SessionOpen
    \/ ConnectReject
    \/ SessionError
    \/ SessionClose
    \/ RestartTimer
    \/ EndSessionCall
    \/ GraceTimer
    \/ SupervisorTick
    \/ VoicedFrame

SpecTimed == Init /\ [][NextTimed]_vars

\* The controller with a session open: start, wake word, microphone granted,
\* connection opened.
Idle ==
    [aiMode |-> "OFF", aiModeRef |-> "OFF", recognitionRef |-> 0,
     recs |-> NoRecs(MaxRecCtl), sessionRef |-> 0,
     sess |-> [i \in SessIds |-> FreeSess], mediaStreamRef |-> 0,
     silenceTimerRef |-> 0, inputContextRef |-> FALSE, audioContextRef |-> FALSE,
     pend |-> [resumeIn |-> 0, resumeOut |-> 0, mic |-> 0], sources |-> 0,
     elapsed |-> 0, nextStartTimeRef |-> 0, currentTime |-> 0,
     chunk |-> NoChunk, overflow |-> FALSE]

InSession ==
    LET listening == toggleAi(Idle, FALSE)
        woken == onresult(listening, listening.recognitionRef,
                          CHOOSE r \in ResultLists : hasWake(r), FALSE, FALSE)
        connecting == afterGetUserMedia(woken, TRUE, FALSE)
    IN  Collect(onopen(connecting, connecting.sessionRef))

InitCtlInSessionWith(frames) ==
    /\ hasSR = TRUE
    /\ aiMode = InSession.aiMode
    /\ aiModeRef = InSession.aiModeRef
    /\ recognitionRef = InSession.recognitionRef
    /\ recs = InSession.recs
    /\ sessionRef = InSession.sessionRef
    /\ sess = InSession.sess
    /\ mediaStreamRef = InSession.mediaStreamRef
    /\ silenceTimerRef = InSession.silenceTimerRef
    /\ inputContextRef = InSession.inputContextRef
    /\ audioContextRef = InSession.audioContextRef
    /\ pend = InSession.pend
    /\ sources = InSession.sources
    /\ elapsed = InSession.elapsed
    /\ nextStartTimeRef = InSession.nextStartTimeRef
    /\ currentTime = InSession.currentTime
    /\ chunk = InSession.chunk
    /\ userStopped = FALSE
    /\ shouldRestartWaitingRef = FALSE
    /\ frame \in frames
    /\ blob = NoBlob

InitCtlInSession == InitCtlInSessionWith({<<>>})

\* The data after the load effect (App.tsx:226-232) and its render.
InitLoaded ==
    /\ data = StoredData
    /\ dataRef = StoredData
    /\ expandedProjectId = StoredData.projects[1].id
    /\ expandedProjectIdRef = StoredData.projects[1].id
    /\ nextId = StoredIds
    /\ effects = {}
    /\ ops = 0
    /\ stored = StoredData
    /\ unseen = <<>>


\* Every event finds the effects of the previous render done.
Ready == effects = {} /\ ops < MaxOps

NextData ==
    \/ Ready /\ ToolBatch
    \/ Ready /\ HandleSaveProject
    \/ Ready /\ HandleDeleteProject
    \/ Ready /\ HandleSaveTask
    \/ Ready /\ HandleDeleteTask
    \/ Ready /\ HandleRemoveTaskFromCalendar
    \/ Ready /\ HandleDragEnd
    \/ Ready /\ ToggleProject
    \/ Effects

\* The application of src/App.tsx.
InitApp == InitCtlInSession /\ InitLoaded /\ build = "App"

SpecData == InitApp /\ [][NextData]_vars

\* The application of src/unnamed/part_008.
InitP8 == InitCtlInSession /\ InitLoaded /\ build = "P8"

SpecData8 == InitP8 /\ [][NextData]_vars

\* createBlob applied to a buffer of processor.onaudioprocess (App.tsx:409-418).
CreateBlob ==
    /\ \E s \in SessIds : sess[s].st = "open" /\ sess[s].proc
    /\ blob = NoBlob
    /\ blob' = createBlob(frame)
    /\ UNCHANGED <<aiMode, aiModeRef, hasSR, recognitionRef, recs, sessionRef,
                   sess, mediaStreamRef, silenceTimerRef, inputContextRef,
                   audioContextRef, pend, sources, elapsed, nextStartTimeRef,
                   currentTime, chunk, userStopped, shouldRestartWaitingRef,
                   frame>>
    /\ UNCHANGED dataVars

NextBlob == CreateBlob

\* A session is open and the processor delivers a buffer.
InitBlob == InitCtlInSessionWith(Frames) /\ InitLoaded /\ build = "App"

SpecBlob == InitBlob /\ [][NextBlob]_vars

\* The data after the user has deleted the two stored projects, one after
\* the other (handleDeleteProject): nothing is left, and the store keeps the
\* last state that was worth saving.
InitEmptied ==
    /\ data = handleDeleteProject(handleDeleteProject(StoredData, 1), 2)
    /\ dataRef = data
    /\ expandedProjectId = 0
    /\ expandedProjectIdRef = 0
    /\ nextId = StoredIds
    /\ effects = {}
    /\ ops = 0
    /\ stored = saveData(handleDeleteProject(StoredData, 1))
    /\ unseen = <<>>

\* When the effects of a commit run.  setData schedules a render, and the
\* effect that assigns dataRef.current (App.tsx:234-239) runs after that
\* render.  For a commit made in an input event (click, submit, pointerup)
\* the render and its effects are done before the next event is handled;
\* for a commit made in onmessage or in the continuation of a promise they
\* are tasks of their own, and a message that has arrived in the meantime is
\* handled before them.
\* No event is held back by the effects of a message or of an import.
Arrives ==
    /\ ops < MaxOps
    /\ \A i \in 1..Len(unseen) : unseen[i] # "ui"
    /\ "expandedProjectId" \in effects => unseen # <<>>

NextRace ==
    \/ Arrives /\ ToolBatch
    \/ Arrives /\ Import
    \/ Ready /\ HandleSaveProject
    \/ Ready /\ HandleDeleteProject
    \/ Ready /\ HandleSaveTask
    \/ Ready /\ HandleDeleteTask
    \/ Ready /\ HandleRemoveTaskFromCalendar
    \/ Ready /\ HandleDragEnd
    \/ Ready /\ ToggleProject
    \/ Effects

\* src/App.tsx with messages that arrive close to each other.
SpecRace == InitApp /\ [][NextRace]_vars

\* Either build, with the stored data or with none.
InitAny ==
    /\ InitCtlInSession
    /\ InitLoaded \/ InitEmptied
    /\ build \in {"App", "P8"}

SpecDataAny == InitAny /\ [][NextData]_vars

TypeOK ==
    /\ aiMode \in AiModes /\ aiModeRef \in AiModes
    /\ recognitionRef \in 0..MaxRec /\ sessionRef \in 0..MaxSess
    /\ mediaStreamRef \in 0..MaxSess /\ silenceTimerRef \in (0..MaxSess) \cup {Cleared}
    /\ PendTotal(pend) <= MaxPend
    /\ sources \in 0..MaxSources
    /\ elapsed \in 0..ElapsedCap

(***************************************************************************)
(* Properties of the controller                                            *)
(***************************************************************************)
Started(r) == recs[r].st = "started"
LiveSession(s) == sess[s].st \in {"connecting", "open"} /\ ~sess[s].closeReq

\* A step completes a pending acquisition of startActiveMode: an await
\* settles, or a connecting session opens, fails or is rejected.
AcquisitionCompletes ==
    \/ PendTotal(pend') < PendTotal(pend)
    \/ \E s \in SessIds : sess[s].st = "connecting" /\ sess'[s].st # "connecting"

\* C1: the user has stopped (Mode is OFF) while startActiveMode was awaiting
\* the microphone or the connection: whenever such an acquisition completes,
\* with success or failure, Mode is still OFF afterwards.
C1_StopDuringAcquisition ==
    [][(userStopped /\ userStopped' /\ aiModeRef = "OFF" /\ AcquisitionCompletes)
          => aiModeRef' = "OFF"]_vars

\* C2: when the delayed restart scheduled by onclose runs after the user has
\* stopped, the controller stays OFF and no recognizer is started.
C2_StopBeforeRestart ==
    [][\A s \in SessIds :
          (userStopped /\ userStopped' /\ sess[s].restart /\ ~sess'[s].restart)
             => (aiModeRef' = "OFF" /\ \A r \in RecIds : ~Started(r)')]_vars

\* C3: at most one live session, at most one started recognizer, and no
\* recognizer is started while a session is live or a microphone stream is
\* held.
C3_OneAtATime ==
    /\ Cardinality({s \in SessIds : LiveSession(s)}) <= 1
    /\ Cardinality({r \in RecIds : Started(r)}) <= 1
    /\ (\E r \in RecIds : Started(r))
          => \A s \in SessIds : ~LiveSession(s) /\ ~sess[s].stream

\* What holds when stopAllAi has released everything.
AllReleased ==
    /\ aiModeRef = "OFF" /\ aiMode = "OFF"
    /\ recognitionRef = 0 /\ \A r \in RecIds : ~Started(r)
    /\ \A s \in SessIds :
          /\ ~LiveSession(s)
          /\ ~sess[s].stream
          /\ ~sess[s].interval /\ ~sess[s].restart /\ ~sess[s].grace
    /\ sources = 0

\* C4: a user stop sets Mode to OFF, and when it returns the recognizer is
\* stopped, every session is closed or scheduled to close, the microphone
\* tracks are stopped, the silence interval, the delayed restart and the
\* endSession timer are cleared and no source is playing.
C4_StopReleasesAll ==
    [][(~userStopped /\ userStopped') => AllReleased']_vars

\* The writes that accompany a write of the mode in startWaitingMode,
\* startActiveMode and stopAllAi.
ModeFootprint ==
    /\ aiModeRef' = "WAITING" =>
          sessionRef' = 0 /\ mediaStreamRef' = 0 /\ recognitionRef' # 0
    /\ aiModeRef' = "ACTIVE" =>
          inputContextRef' /\ audioContextRef'
          /\ PendTotal(pend') = PendTotal(pend) + 1
    /\ aiModeRef' = "OFF" =>
          /\ recognitionRef' = 0 /\ sessionRef' = 0 /\ mediaStreamRef' = 0
          /\ ~inputContextRef' /\ ~audioContextRef'
          /\ silenceTimerRef' = 0 /\ sources' = 0

\* C5: the mode starts as OFF, aiModeRef and aiMode are always the same one
\* of OFF, WAITING, ACTIVE, and every change of the mode is a write of
\* startWaitingMode, startActiveMode or stopAllAi (it comes with the other
\* writes of that function).
C5_ModeControlled ==
    /\ aiModeRef = "OFF" /\ aiMode = "OFF"
    /\ [](aiModeRef \in AiModes /\ aiMode = aiModeRef)
    /\ [][aiModeRef' # aiModeRef => ModeFootprint]_vars

\* The mode has gone OFF, WAITING, ACTIVE and, on a session error, back to
\* WAITING.
C5_Witness ==
    /\ aiModeRef = "WAITING" /\ ~userStopped
    /\ \E s \in SessIds : sess[s].st = "erroring"

\* C6 as stated: while ACTIVE with the silence supervisor running, the mode
\* has left ACTIVE by one supervisor period after the threshold has elapsed.
C6_WaitingWithinOneTick ==
    (aiModeRef = "ACTIVE" /\ \E s \in SessIds : sess[s].interval)
       => elapsed <= SilenceThresholdMs + SupervisorPeriodMs

\* C6 amended: the supervisor tick at which the time since the last voiced
\* frame first exceeds the threshold requests the close of its open session
\* (the session handle being set) and leaves the mode as it is; the mode
\* changes later, from onclose's delayed restart.
C6_CloseWithinOneTick ==
    [][(elapsed <= SilenceThresholdMs /\ elapsed' > SilenceThresholdMs)
          => /\ aiModeRef' = aiModeRef
             /\ \A s \in SessIds :
                   (sess[s].interval /\ sess[s].st = "open" /\ sessionRef # 0)
                      => sess'[s].closeReq]_vars

\* ACTIVE, nothing said for a period more than the threshold, and the close
\* requested by the supervisor (not by endSession, a stop or a restart).
C6_Witness ==
    /\ aiModeRef = "ACTIVE" /\ ~userStopped
    /\ elapsed = SilenceThresholdMs + SupervisorPeriodMs
    /\ \E s \in SessIds :
          sess[s].st = "open" /\ sess[s].interval /\ sess[s].closeReq
          /\ ~sess[s].ended

\* C7: after an endSession call, when the grace timer has fired and the
\* session has closed, and the user has stopped in the meantime, the
\* controller ends in OFF.
C7_EndSessionThenStop ==
    [][\A s \in SessIds :
          (sess[s].ended /\ ~sess[s].grace /\ sess[s].restart /\ ~sess'[s].restart
             /\ userStopped /\ userStopped')
             => aiModeRef' = "OFF"]_vars

\* C8: the controller is never in ACTIVE without a session that is
\* connecting, open or closing, an acquisition in progress, or a restart of
\* the listener scheduled.
C8_NeverStuckActive ==
    aiModeRef = "ACTIVE" =>
        \/ PendTotal(pend) > 0
        \/ \E s \in SessIds :
              sess[s].st \in {"connecting", "open", "erroring"} \/ sess[s].restart

(***************************************************************************)
(* Properties of the data                                                  *)
(***************************************************************************)
\* Every task id under a calendar date of d is the id of a task of a project.
CalendarRefsExist(d) ==
    \A date \in DOMAIN d.calendar :
        \A i \in 1..Len(d.calendar[date]) : d.calendar[date][i] \in TaskIdsIn(d)

\* C9: after any sequence of committed tool-call batches and UI edits from a
\* consistent state, every task id listed under a calendar date is the id of
\* a task that exists in some project.
C9_CalendarRefsExist == CalendarRefsExist(data)

\* after is before without project P: the other projects keep their order,
\* no date appears, and every date keeps, in order, exactly the ids that are
\* not ids of tasks of P.
ProjectDeleted(before, after, P) ==
    /\ after.projects = SelectSeq(before.projects, LAMBDA p : p.id # P.id)
    /\ DOMAIN after.calendar \subseteq DOMAIN before.calendar
    /\ \A date \in DOMAIN before.calendar :
          tasksOn(after.calendar, date)
             = SelectSeq(before.calendar[date], LAMBDA tid : tid \notin taskIdsOf(P))

\* C10: deleteProject(P), as the tool call of part_008 on any snapshot and
\* as the UI handler on any state, removes P and every task id of P from
\* every calendar date and leaves the ids of the other projects' tasks on
\* those dates unchanged and in order.
C10_DeleteProjectPurges ==
    /\ \A q \in ProjectQueries :
          LET i == findProject(dataRef.projects, toLowerCase(q))
              Y == applyP8(startBatch, [name |-> "deleteProject", projectName |-> q], 1)
          IN  i # 0 => ProjectDeleted(dataRef, Y, dataRef.projects[i])
    /\ \A i \in 1..Len(data.projects) :
          ProjectDeleted(data, handleDeleteProject(data, data.projects[i].id),
                         data.projects[i])

\* The first project of the stored data has been deleted by the first event:
\* of the date that listed its task 3 before the task 4 of the second
\* project, only 4 is left.
C10_Witness ==
    /\ ops = 1
    /\ ProjectIdsOf(data) = {2}
    /\ data.calendar = ("2025-01-01" :> <<4>>)

\* The number of tasks of all the projects of a project list.
RECURSIVE TaskCount(_)
TaskCount(projects) ==
    IF projects = <<>> THEN 0
    ELSE Len(Head(projects).tasks) + TaskCount(Tail(projects))

\* C11: in the batch [createProject(n), createTask(n, t)] the second call
\* works on the snapshot the first call left: the commit has one project
\* more than the snapshot, named n, and one task more, titled t, in the
\* first project whose name matches n; on an empty snapshot the commit is
\* exactly one project n that contains exactly one task t.
C11_BatchChains ==
    \A n \in ProjectNames, t \in TaskTitles :
        LET X == run(build, startBatch,
                     << [name |-> "createProject", projectName |-> n],
                        [name |-> "createTask", projectName |-> n, taskTitle |-> t] >>)
            i == findProject(X.projects, toLowerCase(n))
        IN  /\ X.hasChanges
            /\ Len(X.projects) = Len(dataRef.projects) + 1
            /\ X.projects[Len(X.projects)].name = n
            /\ TaskCount(X.projects) = TaskCount(dataRef.projects) + 1
            /\ i # 0
            /\ X.projects[i].tasks[Len(X.projects[i].tasks)].title = t
            /\ dataRef.projects = <<>> =>
                  /\ Len(X.projects) = 1
                  /\ X.projects[1].name = n
                  /\ Len(X.projects[1].tasks) = 1
                  /\ X.projects[1].tasks[1].title = t
                  /\ X.calendar = dataRef.calendar

\* The first message on the emptied data was [createProject, createTask]:
\* the committed data is one project with one task.
C11_Witness ==
    /\ ops = 1
    /\ Len(data.projects) = 1
    /\ data.projects[1].name \in ProjectNames
    /\ Len(data.projects[1].tasks) = 1
    /\ data.projects[1].tasks[1].title \in TaskTitles
    /\ data.projects[1].id = StoredIds + 1
    /\ DOMAIN data.calendar = {}

\* No date of the calendar lists an id twice.
NoDuplicates(calendar) ==
    \A date \in DOMAIN calendar :
        \A i, j \in 1..Len(calendar[date]) :
            calendar[date][i] = calendar[date][j] => i = j

\* The snapshot a message finds when the data committed by X has reached
\* dataRef.current.
nextBatch(X) ==
    [startBatch EXCEPT !.projects = X.projects, !.calendar = X.calendar,
                       !.pre = X.projects, !.sel = X.sel, !.nextId = X.nextId]

\* C12: scheduleTask(title, date) applied twice, in one message or in two
\* consecutive messages, gives the calendar and the projects that applying it
\* once gives, and no date lists an id twice.
C12_ScheduleIdempotent ==
    /\ NoDuplicates(data.calendar)
    /\ \A q \in TaskQueries, d \in Dates :
          LET c == [name |-> "scheduleTask", taskTitle |-> q, date |-> d]
              once == run(build, startBatch, <<c>>)
              twice == run(build, startBatch, <<c, c>>)
              again == run(build, nextBatch(once), <<c>>)
          IN  /\ NoDuplicates(once.calendar)
              /\ twice.calendar = once.calendar
              /\ twice.projects = once.projects
              /\ again.calendar = once.calendar
              /\ again.projects = once.projects

\* Two messages have been handled, the stored task 3 is on 2025-01-02 once,
\* and the second message, whose commit is still to reach dataRef.current,
\* has left the calendar of the first as it was.
C12_Witness ==
    /\ ops = 2
    /\ "data" \in effects
    /\ data.projects = StoredData.projects
    /\ data.calendar = setDate(StoredData.calendar, "2025-01-02", <<3>>)
    /\ dataRef.calendar = data.calendar

\* A call whose execution raises an exception in the running build.
Raises(c) == IF build = "App" THEN throwsApp(c) ELSE throwsP8(c)

\* The responses answer the calls one for one: as many, with the id and the
\* name of the call at the same position.
Answers(responses, calls) ==
    /\ Len(responses) = Len(calls)
    /\ \A i \in 1..Len(calls) :
          responses[i].id = i /\ responses[i].name = calls[i].name

\* C13: for every tool-call message, the function responses sent back are
\* one per call, with the id and the name of the call, in the order of the
\* calls, whether the call succeeded, found nothing or raised an exception
\* (in every state in which a message can arrive).
C13_OneResponsePerCall ==
    Ready =>
        \A calls \in Batches(build) :
            Answers(run(build, startBatch, calls).responses, calls)

\* The state committed by a message [scheduleTask without a title,
\* createProject(n)]: the first call raised, the second created the project,
\* and both were answered.
C13_Witness ==
    /\ ops = 1
    /\ "data" \in effects
    /\ \E n \in ProjectNames :
          LET calls == << [name |-> "scheduleTask", taskTitle |-> undefined,
                           date |-> "2025-01-01"],
                          [name |-> "createProject", projectName |-> n] >>
              X == run(build, [startBatch EXCEPT !.nextId = nextId - 1], calls)
          IN  /\ Raises(calls[1])
              /\ data = [projects |-> X.projects, calendar |-> X.calendar]
              /\ expandedProjectIdRef = X.sel
              /\ Len(data.projects) = Len(dataRef.projects) + 1
              /\ Answers(X.responses, calls)

\* The status of a call whose execution raised an exception.
ErrorStatus == <<"Error executing command">>

\* C14: when a call of a message raises an exception, its response carries
\* the status "Error executing command", the calls after it are executed as
\* they are without it, and the session is not ended by it (in every state
\* in which a message can arrive).
C14_ErrorBecomesStatus ==
    Ready =>
        \A c \in {x \in CallsOf(build) : Raises(x)}, g \in CallsOf(build) :
            LET X == run(build, startBatch, <<c, g>>)
                G == run(build, startBatch, <<g>>)
            IN  /\ Answers(X.responses, <<c, g>>)
                /\ X.responses[1].result = ErrorStatus
                /\ X.responses[2].result = G.responses[1].result
                /\ X.projects = G.projects
                /\ X.calendar = G.calendar
                /\ X.sel = G.sel
                /\ X.ended = G.ended

\* C15: a tool-call message works on its own snapshot: the handler of the
\* message changes the shared state only through its commit (setData), so
\* the objects of the state it started from, which dataRef.current still
\* holds until the effect of the commit has run, are as they were before
\* the message; in particular the task lists of its projects.
C15_SnapshotIsolated ==
    [][ops' # ops => dataRef' = dataRef]_vars

\* A tool-call batch commits in this step: setData(tempState), App.tsx:493-496.
BatchCommits == unseen' = Append(unseen, "tool")

\* The snapshot a batch starts from, dataRef.current, is the committed state.
SnapshotIsCommitted ==
    /\ dataRef.projects = data.projects
    /\ dataRef.calendar = data.calendar

\* C16: batch commits are strictly sequential: a batch that arrives after
\* another batch starts from the state the earlier batch committed, so no
\* committed effect of the earlier batch is lost.
C16_SequentialCommits ==
    [][ (BatchCommits /\ unseen # <<>>
            /\ \A i \in 1..Len(unseen) : unseen[i] = "tool")
        => SnapshotIsCommitted ]_vars

\* C17: an edit made in the UI (or an import) and a batch commit do not
\* overwrite each other: a batch that arrives after the edit starts from the
\* state that holds the edit.
C17_EditsAndBatchesSerialize ==
    [][ (BatchCommits /\ \E i \in 1..Len(unseen) : unseen[i] \in {"ui", "import"})
        => SnapshotIsCommitted ]_vars

\* C18: save is called with the committed state after every batch commit
\* and every UI edit: once the effects of a commit have run, the store holds
\* the committed state.
C18_StoreIsLatest == effects = {} => stored = saveData(data)

\* C19: every chunk starts at max(nextStart, clock); the starts do not
\* decrease, and a chunk starts no earlier than the previous chunk's start
\* plus the previous chunk's duration; nextStart becomes the chunk's end.
C19_PlaybackScheduler ==
    [][ nextStartTimeRef' # nextStartTimeRef =>
            /\ chunk'.start = Max(nextStartTimeRef, currentTime')
            /\ chunk'.start >= chunk.start
            /\ chunk'.start >= chunk.start + chunk.dur
            /\ nextStartTimeRef' = chunk'.start + chunk'.dur ]_vars

\* A chunk that starts after the clock's time: it waits for the end of the
\* chunk before it.
C19_Witness == chunk.dur > 0 /\ chunk.start > currentTime

\* C20: when the user stops, every source is stopped, the set of sources is
\* emptied and nextStart is reset, so that the first chunk of the next
\* session starts at the time of that session's clock; this holds in
\* whatever mode the stop finds the controller.
C20_StopResetsPlayback ==
    [][ (~userStopped /\ userStopped') =>
            /\ sources' = 0
            /\ nextStartTimeRef' = 0 ]_vars

\* The selection id is empty or the id of a project of d.
SelectionValid(id, d) == id = 0 \/ id \in ProjectIdsOf(d)

\* C21: after every committed batch and every deletion in the UI the
\* selection, state and ref, is empty or the id of a project that exists.
C21_SelectionExists ==
    effects = {} =>
        /\ SelectionValid(expandedProjectId, data)
        /\ SelectionValid(expandedProjectIdRef, data)

\* No project of the snapshot has a name that contains q, whatever the case
\* of the letters.
NoProjectNamed(X, q) ==
    \A i \in 1..Len(X.projects) :
        ~includes(toLowerCase(X.projects[i].name), toLowerCase(q))

\* No task of the snapshot has a title that contains q, whatever the case of
\* the letters.
NoTaskTitled(X, q) ==
    \A i \in 1..Len(X.projects) :
        \A j \in 1..Len(X.projects[i].tasks) :
            ~includes(toLowerCase(X.projects[i].tasks[j].title), toLowerCase(q))

\* The target of call c is not found in the snapshot X.
TargetMissing(c, X) ==
    \/ /\ c.name \in {"createTask", "selectProject", "deleteProject"}
       /\ c.projectName # undefined
       /\ NoProjectNamed(X, c.projectName)
    \/ /\ c.name \in {"deleteTask", "scheduleTask", "removeTaskFromCalendar"}
       /\ c.taskTitle # undefined
       /\ NoTaskTitled(X, c.taskTitle)
    \/ c.name = "deleteCurrentProject" /\ X.sel = 0

\* The snapshots a call of a message can find: the one of the start of the
\* message and the ones a first call leaves.
SnapshotsInBatch ==
    {startBatch} \cup {run(build, startBatch, <<c>>) : c \in CallsOf(build)}

\* C22: a call whose target is not found leaves the projects and the
\* calendar of the snapshot and the selection as they were before the call
\* (in every state in which a message can arrive, for the first and for the
\* second call of the message).
C22_NotFoundChangesNothing ==
    Ready =>
        \A X \in SnapshotsInBatch, c \in CallsOf(build) :
            TargetMissing(c, X) =>
                LET Y == run(build, X, <<c>>)
                IN  /\ Y.projects = X.projects
                    /\ Y.calendar = X.calendar
                    /\ Y.sel = X.sel
                    /\ Y.pre = X.pre

\* The state committed by a message [deleteProject(q), selectProject(q)] in
\* which the first call deleted the only project that matches q: the second
\* call found none and the commit is what the first call left.
C22_Witness ==
    /\ ops = 1
    /\ "data" \in effects
    /\ \E q \in ProjectQueries :
          LET del == [name |-> "deleteProject", projectName |-> q]
              sel == [name |-> "selectProject", projectName |-> q]
              X1 == run(build, startBatch, <<del>>)
              X2 == run(build, startBatch, <<del, sel>>)
          IN  /\ Len(X1.projects) < Len(dataRef.projects)
              /\ X1.projects # <<>>
              /\ TargetMissing(sel, X1)
              /\ data = [projects |-> X2.projects, calendar |-> X2.calendar]
              /\ data.projects = X1.projects
              /\ expandedProjectIdRef = X2.sel

\* A status that tells the model the call found nothing.
ReportsFailure(result) ==
    result[1] \in {"Project not found", "Task not found",
                   "No project is currently selected"}

\* C23: a call whose target is not found is answered with a status that
\* reports the failure, "not found" or, for deleteCurrentProject, none
\* selected, and never with a status of success.
C23_NotFoundIsReported ==
    Ready =>
        \A X \in SnapshotsInBatch, c \in CallsOf(build) :
            TargetMissing(c, X) =>
                LET Y == run(build, X, <<c>>)
                IN  /\ ReportsFailure(Y.result)
                    /\ Y.responses[Len(Y.responses)].result = Y.result

\* C24: when speech recognition is unavailable the start reverts to OFF;
\* when the microphone is denied to the listener the controller reverts to
\* OFF, and the recognizer the error came from is not started again.
C24_DeniedIsFatal ==
    [][ /\ ~hasSR => aiModeRef' = "OFF"
        /\ \A r \in RecIds :
              /\ (recs[r].st = "started" /\ recs'[r].st = "denied")
                    => aiModeRef' = "OFF"
              /\ recs[r].st = "denied" => recs'[r].st # "started" ]_vars

\* startActiveMode is invoked in this step: one more invocation is suspended
\* at an await.
Wakes == PendTotal(pend') > PendTotal(pend)

\* C25: the wake callback (startActiveMode) is invoked only from WAITING,
\* once for the period, by a started recognizer that stops itself in the
\* same step, however many results of the event hold the phrase; and the
\* invocation opens at most one session.
C25_WakesOnce ==
    [][ /\ Wakes =>
              /\ aiModeRef = "WAITING" /\ aiModeRef' = "ACTIVE"
              /\ PendTotal(pend') = PendTotal(pend) + 1
              /\ \A r \in RecIds : recs'[r].st # "started"
        /\ Cardinality({s \in SessIds : sess'[s].st = "connecting"})
              <= Cardinality({s \in SessIds : sess[s].st = "connecting"}) + 1
      ]_vars

\* The program has stopped recognizer r: the object exists, is not running,
\* and stopAllAi has taken its end handler away.
Stopped(r) == recs[r].st \notin {"free", "none", "started"} /\ ~recs[r].onend

\* C26: a recognizer that a user stop has stopped is never started again,
\* neither by its end handler nor by the retry timer, whatever the user
\* does afterwards.
C26_StopIsFinal ==
    [][ \A r \in RecIds : Stopped(r) => recs'[r].st # "started" ]_vars

\* The end event of the running recognizer r is handled in this step while
\* the mode is and stays WAITING and the listener has not been stopped.
EndsInWaiting(r) ==
    /\ recs[r].st = "started" /\ recs[r].onend
    /\ aiModeRef = "WAITING" /\ aiModeRef' = "WAITING"
    /\ recs'[r].st \in {"ended", "free"}

\* C27: in WAITING, when a recognizer that was not stopped ends by itself,
\* the listener restarts it: after the end has been handled a recognizer is
\* running again, or a start of one is pending.
C27_RestartsAfterEnd ==
    [][ \A r \in RecIds :
          EndsInWaiting(r) =>
              \E q \in RecIds : recs'[q].st = "started" \/ recs'[q].retry ]_vars

\* An await of startActiveMode settles with a failure in this step, in
\* ACTIVE: an invocation ends and opens no session.
MicFails ==
    /\ aiModeRef = "ACTIVE"
    /\ PendTotal(pend') < PendTotal(pend)
    /\ \A s \in SessIds : sess'[s].st = "connecting" => sess[s].st = "connecting"

\* The connection of a session fails before it has opened, in ACTIVE.
SessionFails ==
    /\ aiModeRef = "ACTIVE"
    /\ \E s \in SessIds :
          sess[s].st = "connecting" /\ sess'[s].st \in {"rejected", "erroring"}

\* The tracks of every stream are stopped and the stream handle is cleared.
MicReleased == mediaStreamRef = 0 /\ \A s \in SessIds : ~sess[s].stream

\* Both audio contexts are closed (only stopAllAi closes them, and it nulls
\* the refs).
ContextsClosed == ~inputContextRef /\ ~audioContextRef

\* A recognizer is running, or its start is about to be retried.
Listening == \E r \in RecIds : recs[r].st = "started" \/ recs[r].retry

\* C28: when the microphone or the session cannot be acquired on the way
\* from WAITING to ACTIVE, the controller is back in WAITING with the
\* listener restarted, the microphone released, the audio contexts closed
\* and the session handle cleared.
C28_FailureReleases ==
    [][ (MicFails \/ SessionFails) =>
            /\ aiModeRef' = "WAITING"
            /\ Listening'
            /\ MicReleased'
            /\ sessionRef' = 0
            /\ ContextsClosed' ]_vars

\* C29: the microphone and the audio contexts of a session are released
\* before the next acquisition: whenever startActiveMode creates audio
\* contexts the previous ones are closed, and whenever it stores a stream
\* the tracks of the previous streams are stopped, so that no more contexts
\* and streams are open than one session has.
C29_ReleasedBeforeAcquire ==
    [][ /\ Wakes => ContextsClosed
        /\ (mediaStreamRef' # 0 /\ mediaStreamRef' # mediaStreamRef) => MicReleased
      ]_vars

\* The name of the i-th project of X contains q, whatever the case.
ProjectHit(X, q, i) == includes(toLowerCase(X.projects[i].name), toLowerCase(q))

\* The title of the j-th task of the i-th project of X contains q.
TaskHit(X, q, i, j) ==
    includes(toLowerCase(X.projects[i].tasks[j].title), toLowerCase(q))

\* i is the first project of the list whose name contains q.
FirstProjectHit(X, q, i) ==
    /\ ProjectHit(X, q, i)
    /\ \A k \in 1..(i - 1) : ~ProjectHit(X, q, k)

\* i is the first project with a task whose title contains q, and j is the
\* first such task of it.
FirstTaskHit(X, q, i, j) ==
    /\ TaskHit(X, q, i, j)
    /\ \A k \in 1..(j - 1) : ~TaskHit(X, q, i, k)
    /\ \A p \in 1..(i - 1) : \A k \in 1..Len(X.projects[p].tasks) : ~TaskHit(X, q, p, k)

\* The ids the calendar lists on date d.
IdsOn(calendar, d) ==
    {tasksOn(calendar, d)[k] : k \in 1..Len(tasksOn(calendar, d))}

\* The tools that look a project up by name, and a task by title, among
\* the branches the build has.
ProjectTools(b) ==
    IF b = "App" THEN {"createTask", "selectProject"}
    ELSE {"createTask", "selectProject", "deleteProject"}
TaskTools(b) ==
    IF b = "App" THEN {"scheduleTask"}
    ELSE {"deleteTask", "scheduleTask", "removeTaskFromCalendar"}

\* Call c took X to Y by acting on the i-th project of X and on no other.
ActsOnProject(X, Y, c, i) ==
    CASE c.name = "createTask" ->
            /\ Len(Y.projects) = Len(X.projects)
            /\ \A k \in 1..Len(X.projects) :
                  Y.projects[k] =
                     IF k = i
                     THEN [X.projects[k] EXCEPT
                             !.tasks = Append(@, [id |-> X.nextId + 1,
                                                  title |-> c.taskTitle])]
                     ELSE X.projects[k]
      [] c.name = "selectProject" ->
            Y.sel = X.projects[i].id /\ Y.projects = X.projects
      [] c.name = "deleteProject" ->
            /\ Len(Y.projects) = Len(X.projects) - 1
            /\ \A k \in 1..Len(Y.projects) :
                  Y.projects[k] = X.projects[IF k < i THEN k ELSE k + 1]

\* Call c took X to Y by acting on the j-th task of the i-th project of X
\* and on no other.
ActsOnTask(X, Y, c, i, j) ==
    LET id == X.projects[i].tasks[j].id
    IN  CASE c.name = "deleteTask" ->
                /\ Len(Y.projects) = Len(X.projects)
                /\ \A k \in 1..Len(X.projects) :
                      Y.projects[k] =
                         IF k = i
                         THEN [X.projects[k] EXCEPT !.tasks = splice(@, j)]
                         ELSE X.projects[k]
          [] c.name = "scheduleTask" ->
                /\ Y.projects = X.projects
                /\ \A d \in Dates :
                      IdsOn(Y.calendar, d) =
                         IdsOn(X.calendar, d) \cup (IF d = c.date THEN {id} ELSE {})
          [] c.name = "removeTaskFromCalendar" ->
                /\ Y.projects = X.projects
                /\ \A d \in Dates :
                      IdsOn(Y.calendar, d) =
                         IdsOn(X.calendar, d) \ (IF d = c.date THEN {id} ELSE {})

\* C30: the project a call names is the first project of the list whose
\* name contains the argument, the task a call names is the first task, in
\* the order of the projects and then of their tasks, whose title contains
\* the argument, letters compared without their case; the lookup is made in
\* the snapshot as the calls before it have left it.
C30_FirstMatchWins ==
    Ready =>
        \A X \in SnapshotsInBatch, c \in CallsOf(build) :
            LET Y == run(build, X, <<c>>)
            IN  /\ (c.name \in ProjectTools(build) /\ c.projectName # undefined) =>
                      \A i \in 1..Len(X.projects) :
                          FirstProjectHit(X, c.projectName, i) =>
                              ActsOnProject(X, Y, c, i)
                /\ (c.name \in TaskTools(build) /\ c.taskTitle # undefined) =>
                      \A i \in 1..Len(X.projects) :
                          \A j \in 1..Len(X.projects[i].tasks) :
                              FirstTaskHit(X, c.taskTitle, i, j) =>
                                  ActsOnTask(X, Y, c, i, j)

\* The commit of the message [createTask(b, Xy)] on the stored data: the
\* names of both projects contain b, and the task is in the first.
C30_Witness ==
    /\ ops = 1
    /\ unseen = <<"tool">>
    /\ Len(data.projects) = 2
    /\ ProjectHit(data, <<"b">>, 1) /\ ProjectHit(data, <<"b">>, 2)
    /\ Len(data.projects[1].tasks) = 2
    /\ data.projects[1].tasks[2].title = <<"X", "y">>
    /\ data.projects[2] = StoredData.projects[2]

\* seq without its j-th element.
Without(seq, j) ==
    [k \in 1..(Len(seq) - 1) |-> IF k < j THEN seq[k] ELSE seq[k + 1]]

\* C31: deleteTask removes one task, the first in the order of the projects
\* and of their tasks whose title contains the argument without regard to
\* case; the id of that task leaves every date of the calendar; every other
\* task and every other id of the calendar stays, in its order, also when
\* several tasks match.
C31_DeleteTaskRemovesOne ==
    Ready =>
        \A X \in SnapshotsInBatch, c \in CallsOf(build) :
            (c.name = "deleteTask" /\ c.taskTitle # undefined) =>
                \A i \in 1..Len(X.projects) :
                    \A j \in 1..Len(X.projects[i].tasks) :
                        FirstTaskHit(X, c.taskTitle, i, j) =>
                            LET Y == run(build, X, <<c>>)
                                id == X.projects[i].tasks[j].id
                            IN  /\ Len(Y.projects) = Len(X.projects)
                                /\ \A k \in 1..Len(X.projects) :
                                      Y.projects[k] =
                                         IF k = i
                                         THEN [X.projects[k] EXCEPT
                                                 !.tasks = Without(@, j)]
                                         ELSE X.projects[k]
                                /\ \A d \in Dates :
                                      tasksOn(Y.calendar, d) =
                                         SelectSeq(tasksOn(X.calendar, d),
                                                   LAMBDA tid : tid # id)

\* The commit of [createTask(b, Xy), deleteTask(x)] on the stored data: the
\* titles X, Xy and xy contain x, and only X, the first, is gone.
C31_Witness ==
    /\ build = "P8"
    /\ ops = 1
    /\ unseen = <<"tool">>
    /\ Len(data.projects) = 2
    /\ Len(data.projects[1].tasks) = 1
    /\ data.projects[1].tasks[1].title = <<"X", "y">>
    /\ data.projects[2] = StoredData.projects[2]
    /\ data.calendar = [d \in {"2025-01-01"} |-> <<4>>]

\* Calendar after is calendar before with id filtered out of the list of
\* date: the other dates keep their entries, and a date without an entry or
\* without the id keeps what it had.
RemovedFromDateOnly(before, after, date, id) ==
    /\ \A d \in Dates \ {date} :
          /\ (d \in DOMAIN after) = (d \in DOMAIN before)
          /\ tasksOn(after, d) = tasksOn(before, d)
    /\ tasksOn(after, date) = SelectSeq(tasksOn(before, date), LAMBDA x : x # id)
    /\ (~arrayIncludes(tasksOn(before, date), id)) => after = before

\* C32: removeTaskFromCalendar of a task that exists filters the id of the
\* task out of the list of the given date and leaves the other dates as they
\* were; if the date has no entry, or the id is not on it, the call answers
\* without an error and the calendar is unchanged.  The same holds of the
\* remove button of the calendar for every task a date shows.
C32_RemoveFromDateOnly ==
    Ready =>
        /\ \A X \in SnapshotsInBatch, c \in CallsOf(build) :
              (c.name = "removeTaskFromCalendar" /\ c.taskTitle # undefined) =>
                  \A i \in 1..Len(X.projects) :
                      \A j \in 1..Len(X.projects[i].tasks) :
                          FirstTaskHit(X, c.taskTitle, i, j) =>
                              LET Y == run(build, X, <<c>>)
                                  id == X.projects[i].tasks[j].id
                              IN  /\ Y.projects = X.projects
                                  /\ RemovedFromDateOnly(X.calendar, Y.calendar,
                                                         c.date, id)
                                  /\ Len(Y.responses) = Len(X.responses) + 1
                                  /\ Y.result = <<"Removed from",
                                                  X.projects[i].tasks[j].title, c.date>>
        /\ \A date \in DOMAIN data.calendar :
              \A taskId \in ShownOn(data, date) :
                  LET d == handleRemoveTaskFromCalendar(data, date, taskId)
                  IN  /\ d.projects = data.projects
                      /\ RemovedFromDateOnly(data.calendar, d.calendar, date, taskId)

\* The commit of [scheduleTask(x, 2025-01-02), removeTaskFromCalendar(x,
\* 2025-01-01)] on the stored data: the task X is gone from the first date
\* and still on the second.
C32_Witness ==
    /\ build = "P8"
    /\ ops = 1
    /\ unseen = <<"tool">>
    /\ data.projects = StoredData.projects
    /\ DOMAIN data.calendar = Dates
    /\ data.calendar["2025-01-01"] = <<4>>
    /\ data.calendar["2025-01-02"] = <<3>>

\* The calls of a message that are run on the snapshot: every call but
\* endSession.
DataCalls(calls) == {k \in 1..Len(calls) : calls[k].name # "endSession"}

\* C33: a message whose calls are all endSession commits nothing: setData
\* is not called, and the data, the selection and their refs stay as they
\* are; a message with a call that is run on the snapshot is committed, by
\* the one setData after the loop, with the snapshot the calls have left.
C33_CommitIffDataCall ==
    Ready =>
        \A calls \in Batches(build) :
            LET X == run(build, startBatch, calls)
                K == commit(X)
            IN  IF DataCalls(calls) = {}
                THEN /\ ~K.setData
                     /\ K.data = data
                     /\ K.expandedProjectId = expandedProjectId
                     /\ X.sel = expandedProjectIdRef
                     /\ X.pre = dataRef.projects
                ELSE /\ K.setData
                     /\ K.data = [projects |-> X.projects, calendar |-> X.calendar]

\* A message of endSession alone has been handled as the first event: the
\* close of the session is pending, nothing is committed and no effect is
\* scheduled.
C33_Witness ==
    /\ build = "App"
    /\ ops = 1
    /\ data = StoredData
    /\ dataRef = StoredData
    /\ unseen = <<>>
    /\ effects = {}
    /\ \E s \in SessIds : sess[s].grace

\* C34: in the controller of part_008, when an open session closes or
\* errors and the user's last action was not a stop, a restart of the
\* wake-word listener is pending and the mode has not become OFF.
C34_CloseReturnsToWaiting ==
    [][ \A s \in SessIds :
          (/\ sess[s].st = "open"
           /\ sess'[s].st \in {"closed", "erroring"}
           /\ ~userStopped')
          => (sess'[s].timers > 0 /\ aiMode' # "OFF") ]_vars

\* C35: once a session is closed, or has failed, its script processor does
\* not fire any more, so that no captured frame is sent to it.
C35_NoFrameAfterClose ==
    \A s \in SessIds :
        sess[s].st \in {"erroring", "closed"} => ~sess[s].proc

\* C36: while the mode is OFF and the user's last action was a stop, the
\* controller holds no microphone stream, no connecting or open session, no
\* audio context and no started recognizer, also after the acquisitions that
\* were pending when the user stopped have completed.
C36_OffHoldsNothing ==
    (aiModeRef = "OFF" /\ userStopped) =>
        /\ mediaStreamRef = 0
        /\ \A s \in SessIds : ~LiveSession(s) /\ ~sess[s].stream
        /\ ~inputContextRef /\ ~audioContextRef
        /\ \A r \in RecIds : ~Started(r)

\* C37: at most one silence interval is running, and one runs only while
\* the mode is ACTIVE and the session that started it is open.
C37_OneSilenceInterval ==
    /\ Cardinality({s \in SessIds : sess[s].interval}) <= 1
    /\ \A s \in SessIds :
          sess[s].interval => (aiModeRef = "ACTIVE" /\ sess[s].st = "open")

\* The ids that are in both lists are in the same order in both.
OrderKept(old, new) ==
    \A i, j \in 1..Len(old) :
        \A k, l \in 1..Len(new) :
            (old[i] = new[k] /\ old[j] = new[l] /\ i < j) => k < l

\* An operation that takes the calendar before to the calendar after puts
\* no id twice on a date and keeps the order of the ids that stay.
KeepsLists(before, after) ==
    /\ NoDuplicates(after)
    /\ \A d \in Dates : OrderKept(tasksOn(before, d), tasksOn(after, d))

\* C38: no date of the calendar lists an id twice, and every tool call
\* (on the snapshot the calls before it have left), every drop, every
\* removal from the calendar and every delete of a task or of a project
\* leaves the ids that stay on a date in the order they had.
C38_CalendarLists ==
    /\ NoDuplicates(data.calendar)
    /\ Ready =>
          \A X \in SnapshotsInBatch, c \in CallsOf(build) :
              KeepsLists(X.calendar, run(build, X, <<c>>).calendar)
    /\ \A taskId \in TaskIdsIn(data), dateStr \in Dates :
          KeepsLists(data.calendar, handleDragEnd(data, taskId, dateStr).calendar)
    /\ \A date \in DOMAIN data.calendar :
          \A taskId \in ShownOn(data, date) :
              KeepsLists(data.calendar,
                         handleRemoveTaskFromCalendar(data, date, taskId).calendar)
    /\ \A i \in 1..Len(data.projects) :
          /\ KeepsLists(data.calendar,
                        handleDeleteProject(data, data.projects[i].id).calendar)
          /\ \A taskId \in taskIdsOf(data.projects[i]) :
                KeepsLists(data.calendar,
                           handleDeleteTask(data, data.projects[i].id, taskId).calendar)

\* Task 3 has been taken off 2025-01-01 and put on it again: it is listed
\* once, after task 4, which has kept its place.
C38_Witness ==
    /\ ops = 2
    /\ DOMAIN data.calendar = {"2025-01-01"}
    /\ data.calendar["2025-01-01"] = <<4, 3>>
    /\ data.projects = StoredData.projects

\* The bytes a base64 text stands for (atob), Pad counting as no byte.
atob(text) ==
    LET pads == Cardinality({p \in 1..Len(text) : text[p] = Pad})
        bit6(p) == IF text[p] = Pad THEN 0 ELSE text[p]
    IN  [k \in 1..(3 * (Len(text) \div 4) - pads) |->
            LET g == (k - 1) \div 3
                x == bit6(4 * g + 1) * 262144 + bit6(4 * g + 2) * 4096
                     + bit6(4 * g + 3) * 64 + bit6(4 * g + 4)
                idx == (k - 1) % 3
            IN  CASE idx = 0 -> x \div 65536
                  [] idx = 1 -> (x \div 256) % 256
                  [] idx = 2 -> x % 256]

\* The 16-bit signed little-endian integers that a PCM blob carries.
Encoded(b) ==
    LET bytes == atob(b.data)
    IN  [i \in 1..(Len(bytes) \div 2) |->
            LET u == bytes[2 * i - 1] + 256 * bytes[2 * i]
            IN  IF u >= 32768 THEN u - 65536 ELSE u]

\* C39: createBlob converts every sample s in [-1, 1] to a 16-bit signed
\* value without wrap-around: the blob carries one integer per sample, the
\* integer lies in -32768 .. 32767, a positive sample is not encoded as a
\* negative integer nor a negative sample as a positive one, and the sample 0
\* is encoded as 0; this includes the sample 1.
C39_NoWrapAround ==
    blob # NoBlob =>
        /\ Len(Encoded(blob)) = Len(frame)
        /\ \A i \in 1..Len(frame) :
              LET v == Encoded(blob)[i]
              IN  /\ v \in -32768..32767
                  /\ frame[i] > 0 => v >= 0
                  /\ frame[i] < 0 => v <= 0
                  /\ frame[i] = 0 => v = 0

\* The same for every sample below 1: the wrap-around is that of 1 alone.
C39_BelowOne ==
    (blob # NoBlob /\ \A i \in 1..Len(frame) : frame[i] < SampleUnit) =>
        /\ Len(Encoded(blob)) = Len(frame)
        /\ \A i \in 1..Len(frame) :
              LET v == Encoded(blob)[i]
              IN  /\ frame[i] > 0 => v >= 0
                  /\ frame[i] < 0 => v <= 0
                  /\ frame[i] = 0 => v = 0

\* The blob carries what the loop stored in the Int16Array.
C39_RoundTrip == blob # NoBlob => Encoded(blob) = int16Of(frame)

====
